---- MODULE Spec2Model ----
\* Model of the khmer Python binding layer (khmer/_khmermodule.cc): record
\* iteration over a native parser, the progress/cancellation callback
\* _report_fn, the long-running engine calls routed through it, and the
\* PyCapsule handles that carry partial partition state between calls.
EXTENDS Integers, Sequences, FiniteSets, TLC

\* ---------------------------------------------------------------- bounds
\* longest input stream given to a parser
MaxLen == 3
\* pulls recorded on one parser
MaxPulls == 5
\* units of work (records of a file, tags of a key range) of one engine call
WorkLen == 4
\* units between two invocations of the progress callback by an engine
ReportInterval == 2
\* capsule objects the host creates in one run
MaxHandles == 2
\* assign_partition_id calls counted per handle
MaxUses == 2
\* pair iterators derived from one parser
MaxIters == 2
\* pair pulls recorded on one parser
MaxPairPulls == 3
\* references to the parser object the host code holds at once
MaxHostRefs == 2
\* keys a partition map can tag
MaxKey == 2
\* partition ids a partition map can assign
MaxPid == 2
\* engine objects the host creates in one run
MaxObjects == 2
\* host threads
MaxThreads == 2
\* k-mer size of the engines whose tables are modelled
KSize == 1
\* largest count kept in a counting table
MaxCount == 1

VARIABLES
    stream,         \* the records of the input the parser was opened on
    tail,           \* input left after the last record that is no record
    cursor,         \* records the native parser has consumed
    pulls,          \* outcome of each pull made through _ReadParser_iternext
    pc,             \* "host": interpreter runs; "native": inside an engine call; "crashed"
    gil,            \* the calling thread holds the interpreter lock
    sig,            \* a host interrupt is pending (signal tripped, not yet checked)
    pyErr,          \* the interpreter's error indicator
    _callback_obj,  \* process-wide default observer
    call,           \* the engine call in progress
    ret,            \* what the last boundary call returned to the host
    caps,           \* capsule objects and their native payloads
    deref,          \* what the last handle-consuming call dereferenced
    names,          \* the identifier (pair base and side) of each input record
    parser_obj,     \* the khmer_ReadParser_Object: reference count, holders, native parser
    iters,          \* the khmer_ReadPairIterator_Objects derived from the parser
    pairs,          \* outcome of each pull made through _ReadPairIterator_iternext
    thr,            \* where each host thread is
    last_report,    \* the last progress report of the engine call in progress
    pmaps,          \* the partition map of each SubsetPartition payload
    files,          \* the partition map file on storage
    tagged,         \* the partition ids the engine's tags have when a sub-engine is split off
    subengine,      \* what became of the SubsetPartition the last call constructed
    objs,           \* engine objects of the host
    natives,        \* native engine instances
    tables,         \* the k-mer tables of a counting and of a presence engine
    last_kmer,      \* the last single-k-mer call: its argument, the tables before it
    last_arg        \* the last call that took a boundary object as an argument

\* the variables of parser, callback, engine calls and capsules
corevars == <<stream, tail, cursor, pulls, pc, gil, sig, pyErr, _callback_obj,
              call, ret, caps, deref>>

pairvars == <<names, parser_obj, iters, pairs>>

mapvars == <<pmaps, files, tagged, subengine>>

kmervars == <<tables, last_kmer>>

engvars == <<objs, natives, kmervars, last_arg>>

vars == <<corevars, pairvars, thr, last_report, mapvars, engvars>>

\* ---------------------------------------------------------------- inputs
\* A record carries its position in the input, so that order is observable;
\* wf = FALSE is a malformed record.
Streams ==
    UNION { { [i \in 1..n |-> [id |-> i, wf |-> w[i]]] : w \in [1..n -> BOOLEAN] }
            : n \in 0..MaxLen }

WellFormed(s) == \A i \in 1..Len(s) : s[i].wf

\* observer arguments: absent, the None sentinel, a callable, a callable that raises
Observers == {"NULL", "None", "fn_ok", "fn_raise"}

Paths == {"good", "missing"}

NoRet ==
    [op |-> "none", kind |-> "none", err |-> "none", msg |-> "none",
     obj |-> "none", count |-> -1, cause |-> "none", why |-> "none",
     n |-> 0, since |-> 0, second |-> -1]

\* what one progress report did: the per-call observer and the default it
\* was made with, the observer it called and the arguments it called it with
NoReport ==
    [made |-> FALSE, cb |-> "NULL", dflt |-> "NULL", observed |-> "NULL",
     args |-> <<>>, n |-> 0, thrown |-> FALSE, why |-> "none",
     tripped |-> FALSE, yielded |-> FALSE, steps |-> <<>>, locked |-> TRUE]

Keys == 1..MaxKey

\* a partition map: the partition id of each key, 0 for a key that is not tagged
PMaps == [Keys -> 0..MaxPid]

NoMap == [k \in Keys |-> 0]

Threads == 1..MaxThreads

\* a record identifier: the name of the pair it belongs to and its side
Names == [base : {1, 2}, side : {1, 2}]

\* an input of n records that come in complete pairs (the last one may lack its partner)
PairedNames(n) == [i \in 1..n |-> [base |-> (i + 1) \div 2, side |-> 2 - (i % 2)]]

\* the khmer_ReadParser_Object _ReadParser_new returns: one reference, held
\* by the host, and the native parser get_parser opened
NewParser == [refcnt |-> 1, host |-> 1, st |-> "live", native |-> "open"]

NoIter == [st |-> "unused", pair_mode |-> 0]

\* a thread running host code with the interpreter lock, and one waiting for it
HostThread == [at |-> "host", c |-> -1]

WaitingThread == [at |-> "wait", c |-> -1]

NoObj == [type |-> "none", st |-> "unused", ptr |-> 0, base |-> 0, engine |-> 0]

NoNative == [kind |-> "none", st |-> "none", deletes |-> 0]

NoArgCall == [op |-> "none", expects |-> "none", type |-> "none", native |-> "none"]

\* the bases of a k-mer, the k-mers of size KSize, and the strings the host
\* passes where a k-mer is expected (shorter, of size KSize, longer)
Bases == {"A", "C"}

Kmers == [1..KSize -> Bases]

KmerStrings == UNION {[1..n -> Bases] : n \in 0..(KSize + 1)}

EmptyTables ==
    [counting |-> [k \in Kmers |-> 0], hashbits |-> [k \in Kmers |-> 0]]

NoKmerCall == [op |-> "none", arg |-> <<>>, before |-> EmptyTables]

\* ------------------------------------------------- the native parser
\* khmer::read_parsers::IParser, whose code is outside this file: complete
\* when every record and the trailing input have been consumed.
is_complete == cursor = Len(stream) /\ ~tail

\* IParser::imprint_next_read: the next record, StreamReadError on a
\* malformed one, NoMoreReadsAvailable when only trailing input is left.
imprint_next_read ==
    IF cursor < Len(stream)
    THEN [exc |-> IF stream[cursor + 1].wf THEN "none" ELSE "StreamReadError",
          read |-> IF stream[cursor + 1].wf THEN stream[cursor + 1].id ELSE 0,
          cursor |-> cursor + 1, tail |-> tail]
    ELSE [exc |-> "NoMoreReadsAvailable", read |-> 0,
          cursor |-> cursor, tail |-> FALSE]

\* the pairing policies, as the module exports them
PAIR_MODE_ALLOW_UNPAIRED == 0

PAIR_MODE_IGNORE_UNPAIRED == 1

PAIR_MODE_ERROR_ON_UNPAIRED == 2

\* records i and j are the two sides of one pair
Match(i, j) ==
    /\ names[i].base = names[j].base
    /\ names[i].side = 1 /\ names[j].side = 2

NoPair(exc, c, t) ==
    [exc |-> exc, first |-> 0, second |-> 0, cursor |-> c, tail |-> t]

\* IParser::imprint_next_read_pair, whose code is outside this file, reading
\* from record c on. A pair is two consecutive matching records.
\* ERROR_ON_UNPAIRED: the next two records are read; InvalidReadPair unless
\* they match, a record left without a partner included.
NextPairError(c) ==
    IF c + 1 > Len(stream) THEN NoPair("NoMoreReadsAvailable", c, FALSE)
    ELSE IF ~stream[c + 1].wf THEN NoPair("StreamReadError", c + 1, tail)
    ELSE IF c + 2 > Len(stream) THEN NoPair("InvalidReadPair", c + 1, FALSE)
    ELSE IF ~stream[c + 2].wf THEN NoPair("StreamReadError", c + 2, tail)
    ELSE IF ~Match(c + 1, c + 2) THEN NoPair("InvalidReadPair", c + 2, tail)
    ELSE [exc |-> "none", first |-> stream[c + 1].id, second |-> stream[c + 2].id,
          cursor |-> c + 2, tail |-> tail]

\* IGNORE_UNPAIRED: records are dropped until two consecutive ones match
RECURSIVE NextPairIgnore(_)
NextPairIgnore(c) ==
    IF c + 1 > Len(stream) THEN NoPair("NoMoreReadsAvailable", c, FALSE)
    ELSE IF ~stream[c + 1].wf THEN NoPair("StreamReadError", c + 1, tail)
    ELSE IF c + 2 > Len(stream) THEN NoPair("NoMoreReadsAvailable", c + 1, FALSE)
    ELSE IF ~stream[c + 2].wf THEN NoPair("StreamReadError", c + 2, tail)
    ELSE IF ~Match(c + 1, c + 2) THEN NextPairIgnore(c + 1)
    ELSE [exc |-> "none", first |-> stream[c + 1].id, second |-> stream[c + 2].id,
          cursor |-> c + 2, tail |-> tail]

\* ALLOW_UNPAIRED: a record whose successor is not its partner is paired with
\* an empty record (0), and the successor is left in the input
NextPairAllow(c) ==
    IF c + 1 > Len(stream) THEN NoPair("NoMoreReadsAvailable", c, FALSE)
    ELSE IF ~stream[c + 1].wf THEN NoPair("StreamReadError", c + 1, tail)
    ELSE IF c + 2 <= Len(stream) /\ stream[c + 2].wf /\ Match(c + 1, c + 2)
    THEN [exc |-> "none", first |-> stream[c + 1].id, second |-> stream[c + 2].id,
          cursor |-> c + 2, tail |-> tail]
    ELSE [exc |-> "none", first |-> stream[c + 1].id, second |-> 0,
          cursor |-> c + 1, tail |-> tail]

\* the pair read of a parser that starts over from the first record
imprint_next_read_pair_rewinds(mode) ==
    CASE mode = PAIR_MODE_ALLOW_UNPAIRED -> NextPairAllow(0)
      [] mode = PAIR_MODE_IGNORE_UNPAIRED -> NextPairIgnore(0)
      [] mode = PAIR_MODE_ERROR_ON_UNPAIRED -> NextPairError(0)
      [] OTHER -> NoPair("UnknownPairReadingMode", cursor, tail)

imprint_next_read_pair(mode) ==
    CASE mode = PAIR_MODE_ALLOW_UNPAIRED -> NextPairAllow(cursor)
      [] mode = PAIR_MODE_IGNORE_UNPAIRED -> NextPairIgnore(cursor)
      [] mode = PAIR_MODE_ERROR_ON_UNPAIRED -> NextPairError(cursor)
      [] OTHER -> NoPair("UnknownPairReadingMode", cursor, tail)

\* ------------------------------------------------- record iteration
\* The tail of _ReadParser_iternext: what is returned for the flags the
\* released section left behind.
IterNextResultNoStop(stop_iteration, exc, read) ==
    IF exc # "NULL"
    THEN [NoRet EXCEPT !.op = "_ReadParser_iternext", !.kind = "fail",
                       !.err = "IOError", !.msg = exc, !.cause = "StreamReadError"]
    ELSE [NoRet EXCEPT !.op = "_ReadParser_iternext", !.kind = "value",
                       !.obj = "Read", !.count = read]

IterNextResult(stop_iteration, exc, read) ==
    IF stop_iteration
    THEN [NoRet EXCEPT !.op = "_ReadParser_iternext", !.kind = "stop",
                       !.cause = "EndOfStream"]
    ELSE IF exc # "NULL"
    THEN [NoRet EXCEPT !.op = "_ReadParser_iternext", !.kind = "fail",
                       !.err = "IOError", !.msg = exc, !.cause = "StreamReadError"]
    ELSE [NoRet EXCEPT !.op = "_ReadParser_iternext", !.kind = "value",
                       !.obj = "Read", !.count = read]

\* what a pull's outcome looks like in the pull history: the record's
\* position (0 for a Read object that holds no record), -1 for end of
\* iteration, -2 for a failure
PullOutcome(r) ==
    IF r.kind = "value" THEN r.count ELSE IF r.kind = "stop" THEN -1 ELSE -2

\* the released section of _ReadParser_iternext (the calls into the native
\* parser) and the return that follows it
ReadParserPull ==
    LET complete == is_complete
        nr == imprint_next_read
        stop_iteration == complete \/ nr.exc = "NoMoreReadsAvailable"
        exc == IF ~complete /\ nr.exc = "StreamReadError"
               THEN "what(StreamReadError)" ELSE "NULL"
        r == IterNextResult(stop_iteration, exc, nr.read)
    IN /\ cursor' = IF complete THEN cursor ELSE nr.cursor
       /\ tail' = IF complete THEN tail ELSE nr.tail
       /\ ret' = r
       /\ pyErr' = r.err
       /\ pulls' = Append(pulls, PullOutcome(r))

_ReadParser_iternext ==
    /\ pc = "host" /\ gil
    /\ Len(pulls) < MaxPulls
    /\ ReadParserPull
    \* Py_BEGIN_ALLOW_THREADS .. Py_END_ALLOW_THREADS enclose the try block
    /\ gil' = TRUE
    /\ UNCHANGED <<stream, pc, sig, _callback_obj, call, caps, deref>>
    /\ UNCHANGED <<pairvars, thr, last_report, mapvars, engvars>>

\* ------------------------------------------------- parser and iterator objects
\* the policy arguments the host passes to iter_read_pairs: the three
\* policies, and integers that are none of them
PairModeArgs == {0, 1, 2, 3, 257, -1}

Py_INCREF_missing(refcnt) == refcnt

\* Py_INCREF( self ) in ReadParser_iter_read_pairs
Py_INCREF(refcnt) == refcnt + 1

\* _ReadParser_dealloc: Py_DECREF is applied to obj->parser, which is the
\* native IParser and no host object, so that its first word is decremented
\* as a reference count would be; the native parser is not deleted; the
\* object's own memory is freed.
_ReadParser_dealloc(p) ==
    [p EXCEPT !.st = "freed", !.native = "decremented"]

\* Py_DECREF on the parser object p: the tp_dealloc runs when the count
\* reaches zero; on an object already freed it writes to freed memory
Py_DECREF(p) ==
    IF p.st # "live" THEN [p EXCEPT !.st = "freed and written"]
    ELSE IF p.refcnt = 1 THEN _ReadParser_dealloc([p EXCEPT !.refcnt = 0])
    ELSE [p EXCEPT !.refcnt = @ - 1]

\* a reference to parser record p is dropped; a write through a pointer
\* that is no live host object is undefined: the process may go on or die
DropParserRef(p) ==
    LET q == Py_DECREF(p)
    IN  /\ parser_obj' = q
        /\ IF q.st = "live" THEN pc' = pc
           ELSE \E crash \in BOOLEAN : pc' = IF crash THEN "crashed" ELSE pc

LiveIters == {i \in 1..MaxIters : iters[i].st = "live"}

\* ReadParser_iter_read_pairs(self, pair_mode)
ReadParser_iter_read_pairs(pair_mode) ==
    /\ pc = "host" /\ gil
    /\ parser_obj.st = "live" /\ parser_obj.host > 0
    /\ \E i \in 1..MaxIters :
        /\ iters[i].st = "unused"
        /\ \A j \in 1..(i - 1) : iters[j].st # "unused"
        /\ iters' = [iters EXCEPT ![i] = [st |-> "live", pair_mode |-> pair_mode]]
    /\ parser_obj' = [parser_obj EXCEPT !.refcnt = Py_INCREF(@)]
    /\ ret' = [NoRet EXCEPT !.op = "ReadParser_iter_read_pairs", !.kind = "value",
                            !.obj = "ReadPairIterator"]
    /\ pyErr' = "none"
    /\ UNCHANGED <<stream, tail, cursor, pulls, pc, gil, sig, _callback_obj, call,
                   caps, deref>>
    /\ UNCHANGED <<names, pairs, thr, last_report, mapvars, engvars>>

\* khmer_ReadPairIterator_dealloc: the host releases pair iterator i
khmer_ReadPairIterator_dealloc ==
    /\ pc = "host" /\ gil
    /\ \E i \in LiveIters : iters' = [iters EXCEPT ![i].st = "dead"]
    /\ DropParserRef(parser_obj)
    /\ ret' = NoRet
    /\ UNCHANGED <<stream, tail, cursor, pulls, gil, sig, pyErr, _callback_obj,
                   call, caps, deref>>
    /\ UNCHANGED <<names, pairs, thr, last_report, mapvars, engvars>>

\* before the host has constructed a parser object
NoParser == [refcnt |-> 0, host |-> 0, st |-> "none", native |-> "none"]

\* _ReadParser_new(path): the object is allocated (one reference, zeroed
\* slot) and IParser::get_parser is called; InvalidStreamHandle is caught,
\* ValueError is set and NULL returned, the allocated object not released
_ReadParser_new ==
    /\ pc = "host" /\ gil
    /\ parser_obj.st = "none"
    /\ \E path \in Paths :
        IF path = "good"
        THEN /\ parser_obj' = NewParser
             /\ ret' = [NoRet EXCEPT !.op = "_ReadParser_new", !.kind = "value",
                                     !.obj = "ReadParser"]
             /\ pyErr' = "none"
        ELSE /\ parser_obj' = [refcnt |-> 1, host |-> 0, st |-> "live",
                               native |-> "null"]
             /\ ret' = [NoRet EXCEPT !.op = "_ReadParser_new", !.kind = "fail",
                                     !.err = "ValueError", !.msg = "what()",
                                     !.cause = "InvalidStreamHandle"]
             /\ pyErr' = "ValueError"
    /\ UNCHANGED <<stream, tail, cursor, pulls, pc, gil, sig, _callback_obj, call,
                   caps, deref>>
    /\ UNCHANGED <<names, iters, pairs, thr, last_report, mapvars, engvars>>

\* host code binds another name to the parser object
HostAddRef ==
    /\ pc = "host" /\ gil
    /\ parser_obj.st = "live" /\ parser_obj.host > 0
    /\ parser_obj.host < MaxHostRefs
    /\ parser_obj' = [parser_obj EXCEPT !.refcnt = @ + 1, !.host = @ + 1]
    /\ ret' = NoRet
    /\ UNCHANGED <<stream, tail, cursor, pulls, pc, gil, sig, pyErr, _callback_obj,
                   call, caps, deref>>
    /\ UNCHANGED <<names, iters, pairs, thr, last_report, mapvars, engvars>>

\* host code drops one of its references to the parser object
HostDropRef ==
    /\ pc = "host" /\ gil
    /\ parser_obj.host > 0
    /\ DropParserRef([parser_obj EXCEPT !.host = @ - 1])
    /\ ret' = NoRet
    /\ UNCHANGED <<stream, tail, cursor, pulls, gil, sig, pyErr, _callback_obj,
                   call, caps, deref>>
    /\ UNCHANGED <<names, iters, pairs, thr, last_report, mapvars, engvars>>

\* ------------------------------------------------- pair iteration
\* The tail of _ReadPairIterator_iternext: what is returned for the flags the
\* released section left behind and the pair it read.
PairNextResultKeepsInvalid(stop_iteration, unknown_pair_reading_mode, invalid_read_pair, stream_read_error, first, second) ==
    [NoRet EXCEPT !.op = "_ReadPairIterator_iternext", !.kind = "value",
                  !.obj = "tuple", !.count = first, !.second = second]

PairNextResultFailsAtEnd(stop_iteration, unknown_pair_reading_mode, invalid_read_pair, stream_read_error, first, second) ==
    IF stop_iteration \/ invalid_read_pair
    THEN [NoRet EXCEPT !.op = "_ReadPairIterator_iternext", !.kind = "fail",
                       !.err = "IOError", !.msg = "Invalid read pair detected.",
                       !.cause = "InvalidReadPair"]
    ELSE [NoRet EXCEPT !.op = "_ReadPairIterator_iternext", !.kind = "value",
                       !.obj = "tuple", !.count = first, !.second = second]

PairNextResultNoPlaceholder(stop_iteration, unknown_pair_reading_mode, invalid_read_pair, stream_read_error, first, second) ==
    IF stop_iteration \/ second = 0
    THEN [NoRet EXCEPT !.op = "_ReadPairIterator_iternext", !.kind = "stop",
                       !.cause = "EndOfStream"]
    ELSE [NoRet EXCEPT !.op = "_ReadPairIterator_iternext", !.kind = "value",
                       !.obj = "tuple", !.count = first, !.second = second]

PairNextResult(stop_iteration, unknown_pair_reading_mode, invalid_read_pair, stream_read_error, first, second) ==
    IF stop_iteration
    THEN [NoRet EXCEPT !.op = "_ReadPairIterator_iternext", !.kind = "stop",
                       !.cause = "EndOfStream"]
    ELSE IF unknown_pair_reading_mode
    THEN [NoRet EXCEPT !.op = "_ReadPairIterator_iternext", !.kind = "fail",
                       !.err = "ValueError",
                       !.msg = "Unknown pair reading mode supplied.",
                       !.cause = "UnknownPairReadingMode"]
    ELSE IF invalid_read_pair
    THEN [NoRet EXCEPT !.op = "_ReadPairIterator_iternext", !.kind = "fail",
                       !.err = "IOError", !.msg = "Invalid read pair detected.",
                       !.cause = "InvalidReadPair"]
    ELSE IF stream_read_error
    THEN [NoRet EXCEPT !.op = "_ReadPairIterator_iternext", !.kind = "fail",
                       !.err = "IOError", !.msg = "Input file error.",
                       !.cause = "StreamReadError"]
    ELSE [NoRet EXCEPT !.op = "_ReadPairIterator_iternext", !.kind = "value",
                       !.obj = "tuple", !.count = first, !.second = second]

\* what a pair pull's outcome looks like in the pair history: the iterator,
\* its policy as the pull read it, the records c consumed before the pull,
\* and the two records returned (0 for an empty Read)
PairOutcome(i, mode, c, r) ==
    [it |-> i, mode |-> mode, from |-> c, kind |-> r.kind, cause |-> r.cause,
     first |-> IF r.kind = "value" THEN r.count ELSE -1,
     second |-> IF r.kind = "value" THEN r.second ELSE -1]

\* the same pull by an iterator that reads through a parser of its own,
\* opened at the start of the input, instead of myself->parent->parser
ReadPairPull_own_parser(i) ==
    IF parser_obj.st = "live"
    THEN LET \* uint8_t pair_mode = myself->pair_mode
             pair_mode == iters[i].pair_mode % 256
             complete == is_complete
             np == imprint_next_read_pair_rewinds(pair_mode)
             r == PairNextResult(complete \/ np.exc = "NoMoreReadsAvailable",
                                 ~complete /\ np.exc = "UnknownPairReadingMode",
                                 ~complete /\ np.exc = "InvalidReadPair",
                                 ~complete /\ np.exc = "StreamReadError",
                                 np.first, np.second)
         IN /\ cursor' = IF complete THEN cursor ELSE np.cursor
            /\ tail' = IF complete THEN tail ELSE np.tail
            /\ ret' = r
            /\ pyErr' = r.err
            /\ pairs' = Append(pairs, PairOutcome(i, pair_mode, cursor, r))
            /\ pc' = pc
    ELSE \* myself->parent points to a freed object
         /\ pc' = "crashed"
         /\ ret' = [NoRet EXCEPT !.op = "_ReadPairIterator_iternext",
                                 !.kind = "terminate",
                                 !.cause = "parent parser freed"]
         /\ UNCHANGED <<cursor, tail, pyErr, pairs>>

\* the released section of _ReadPairIterator_iternext on iterator i (the
\* calls into the native parser of its parent) and the return that follows it
ReadPairPull(i) ==
    IF parser_obj.st = "live"
    THEN LET \* uint8_t pair_mode = myself->pair_mode
             pair_mode == iters[i].pair_mode % 256
             complete == is_complete
             np == imprint_next_read_pair(pair_mode)
             r == PairNextResult(complete \/ np.exc = "NoMoreReadsAvailable",
                                 ~complete /\ np.exc = "UnknownPairReadingMode",
                                 ~complete /\ np.exc = "InvalidReadPair",
                                 ~complete /\ np.exc = "StreamReadError",
                                 np.first, np.second)
         IN /\ cursor' = IF complete THEN cursor ELSE np.cursor
            /\ tail' = IF complete THEN tail ELSE np.tail
            /\ ret' = r
            /\ pyErr' = r.err
            /\ pairs' = Append(pairs, PairOutcome(i, pair_mode, cursor, r))
            /\ pc' = pc
    ELSE \* myself->parent points to a freed object
         /\ pc' = "crashed"
         /\ ret' = [NoRet EXCEPT !.op = "_ReadPairIterator_iternext",
                                 !.kind = "terminate",
                                 !.cause = "parent parser freed"]
         /\ UNCHANGED <<cursor, tail, pyErr, pairs>>

_ReadPairIterator_iternext ==
    /\ pc = "host" /\ gil
    /\ Len(pairs) < MaxPairPulls
    /\ \E i \in LiveIters : ReadPairPull(i)
    \* Py_BEGIN_ALLOW_THREADS .. Py_END_ALLOW_THREADS enclose the try block
    /\ gil' = TRUE
    /\ UNCHANGED <<stream, pulls, sig, _callback_obj, call, caps, deref>>
    /\ UNCHANGED <<names, parser_obj, iters, thr, last_report, mapvars, engvars>>

\* ------------------------------------------------- pulls by several threads
\* Both iternext handlers release the interpreter lock around their calls
\* into the native parser, so a pull by a host thread is two steps: up to
\* Py_BEGIN_ALLOW_THREADS, and from Py_END_ALLOW_THREADS on. Consumer 0 is
\* the parser's own record iteration, consumer i > 0 pair iterator i.
InPull == {t \in Threads : thr[t].at = "pull"}

PullBegin(t) ==
    /\ pc = "host" /\ gil
    /\ thr[t].at = "host"
    /\ parser_obj.st = "live"
    /\ \E c \in {0} \cup LiveIters :
        /\ c = 0 => (parser_obj.host > 0 /\ Len(pulls) < MaxPulls)
        /\ c # 0 => Len(pairs) < MaxPairPulls
        /\ thr' = [thr EXCEPT ![t] = [at |-> "pull", c |-> c]]
    /\ gil' = FALSE
    /\ UNCHANGED <<stream, tail, cursor, pulls, pc, sig, pyErr, _callback_obj,
                   call, ret, caps, deref>>
    /\ UNCHANGED <<pairvars, last_report, mapvars, engvars>>

\* The native calls of thread t are done and it takes the lock again. Calls
\* of two threads into one native parser at the same time are a data race:
\* they may come out as if made one after the other, or bring the process down.
PullEnd(t) ==
    /\ pc = "host" /\ ~gil
    /\ thr[t].at = "pull"
    /\ \/ IF thr[t].c = 0
          THEN ReadParserPull /\ pc' = pc /\ pairs' = pairs
          ELSE ReadPairPull(thr[t].c) /\ pulls' = pulls
       \/ /\ InPull # {t}
          /\ pc' = "crashed"
          /\ ret' = [NoRet EXCEPT !.op = "iternext", !.kind = "terminate",
                                  !.cause = "concurrent pulls"]
          /\ UNCHANGED <<cursor, tail, pyErr, pulls, pairs>>
    /\ gil' = TRUE
    /\ thr' = [thr EXCEPT ![t] = HostThread]
    /\ UNCHANGED <<stream, sig, _callback_obj, call, caps, deref>>
    /\ UNCHANGED <<names, parser_obj, iters, last_report, mapvars, engvars>>

\* the interpreter hands the free lock to a waiting thread
ThreadTakesLock(t) ==
    /\ pc = "host" /\ ~gil
    /\ thr[t].at = "wait"
    /\ thr' = [thr EXCEPT ![t] = HostThread]
    /\ gil' = TRUE
    /\ UNCHANGED <<stream, tail, cursor, pulls, pc, sig, pyErr, _callback_obj,
                   call, ret, caps, deref>>
    /\ UNCHANGED <<pairvars, last_report, mapvars, engvars>>

\* the interpreter makes the running thread give up the lock between two
\* host instructions
ThreadYields(t) ==
    /\ pc = "host" /\ gil
    /\ thr[t].at = "host"
    /\ thr' = [thr EXCEPT ![t] = WaitingThread]
    /\ gil' = FALSE
    /\ UNCHANGED <<stream, tail, cursor, pulls, pc, sig, pyErr, _callback_obj,
                   call, ret, caps, deref>>
    /\ UNCHANGED <<pairvars, last_report, mapvars, engvars>>

\* ------------------------------------------------- CancellationBridge
\* _report_fn(info, data, n_reads, other) with the interrupt flag `tripped`,
\* the error indicator `err` and the default observer `dflt` it reads.
\* The result says whether _khmer_signal was thrown and with which message,
\* what is left of the interrupt flag and the error indicator, which
\* observer was called, and whether the final yield was reached.
\* the step of _report_fn that calls observer callee, if there is one
Called(callee) == IF callee = "NULL" THEN <<>> ELSE <<"PyObject_Call">>

_report_fn_observer_first(data, tripped, err, dflt) ==
    LET d == IF data = "NULL" /\ dflt # "NULL" THEN dflt ELSE data
        callee == IF d # "NULL" /\ d # "None" THEN d ELSE "NULL"
        e2 == IF callee = "fn_raise" THEN "ObserverError" ELSE err
    IN  IF tripped
        THEN [thrown |-> TRUE, msg |-> "PyErr_CheckSignals received a signal",
              sig |-> FALSE, err |-> "KeyboardInterrupt", observed |-> callee,
              yielded |-> FALSE, why |-> "interrupt",
              steps |-> Called(callee) \o <<"PyErr_CheckSignals">>]
        ELSE IF e2 # "none"
        THEN [thrown |-> TRUE, msg |-> "PyErr_Occurred is set", sig |-> FALSE,
              err |-> e2, observed |-> callee, yielded |-> FALSE,
              why |-> "observer",
              steps |-> Called(callee) \o <<"PyErr_CheckSignals", "PyErr_Occurred">>]
        ELSE [thrown |-> FALSE, msg |-> "none", sig |-> FALSE, err |-> e2,
              observed |-> callee, yielded |-> TRUE, why |-> "none",
              steps |-> Called(callee)
                        \o <<"PyErr_CheckSignals", "PyErr_Occurred", "yield">>]

_report_fn_ignores_signal(data, tripped, err, dflt) ==
    LET d == IF data = "NULL" /\ dflt # "NULL" THEN dflt ELSE data
        callee == IF d # "NULL" /\ d # "None" THEN d ELSE "NULL"
        e2 == IF callee = "fn_raise" THEN "ObserverError" ELSE err
    IN  IF e2 # "none"
        THEN [thrown |-> TRUE, msg |-> "PyErr_Occurred is set", sig |-> tripped,
              err |-> e2, observed |-> callee, yielded |-> FALSE,
              why |-> "observer",
              steps |-> Called(callee) \o <<"PyErr_Occurred">>]
        ELSE [thrown |-> FALSE, msg |-> "none", sig |-> tripped, err |-> e2,
              observed |-> callee, yielded |-> TRUE, why |-> "none",
              steps |-> Called(callee) \o <<"PyErr_Occurred", "yield">>]

_report_fn_default_first(data, tripped, err, dflt) ==
    IF tripped
    THEN [thrown |-> TRUE, msg |-> "PyErr_CheckSignals received a signal",
          sig |-> FALSE, err |-> "KeyboardInterrupt", observed |-> "NULL",
          yielded |-> FALSE, why |-> "interrupt",
          steps |-> <<"PyErr_CheckSignals">>]
    ELSE LET d == IF dflt # "NULL" THEN dflt ELSE data
             callee == IF d # "NULL" /\ d # "None" THEN d ELSE "NULL"
             e2 == IF callee = "fn_raise" THEN "ObserverError" ELSE err
         IN  IF e2 # "none"
             THEN [thrown |-> TRUE, msg |-> "PyErr_Occurred is set", sig |-> FALSE,
                   err |-> e2, observed |-> callee, yielded |-> FALSE,
                   why |-> "observer",
              steps |-> <<"PyErr_CheckSignals">> \o Called(callee) \o <<"PyErr_Occurred">>]
             ELSE [thrown |-> FALSE, msg |-> "none", sig |-> FALSE, err |-> e2,
                   observed |-> callee, yielded |-> TRUE, why |-> "none",
              steps |-> <<"PyErr_CheckSignals">> \o Called(callee) \o <<"PyErr_Occurred", "yield">>]

_report_fn_ignores_observer_error(data, tripped, err, dflt) ==
    IF tripped
    THEN [thrown |-> TRUE, msg |-> "PyErr_CheckSignals received a signal",
          sig |-> FALSE, err |-> "KeyboardInterrupt", observed |-> "NULL",
          yielded |-> FALSE, why |-> "interrupt",
          steps |-> <<"PyErr_CheckSignals">>]
    ELSE LET d == IF data = "NULL" /\ dflt # "NULL" THEN dflt ELSE data
             callee == IF d # "NULL" /\ d # "None" THEN d ELSE "NULL"
         IN  [thrown |-> FALSE, msg |-> "none", sig |-> FALSE, err |-> "none",
              observed |-> callee, yielded |-> TRUE, why |-> "none",
              steps |-> <<"PyErr_CheckSignals">> \o Called(callee) \o <<"yield">>]

_report_fn(data, tripped, err, dflt) ==
    IF tripped
    THEN \* PyErr_CheckSignals() ran the handler, which raised KeyboardInterrupt
         [thrown |-> TRUE, msg |-> "PyErr_CheckSignals received a signal",
          sig |-> FALSE, err |-> "KeyboardInterrupt", observed |-> "NULL",
          yielded |-> FALSE, why |-> "interrupt",
          steps |-> <<"PyErr_CheckSignals">>]
    ELSE LET d == IF data = "NULL" /\ dflt # "NULL" THEN dflt ELSE data
             callee == IF d # "NULL" /\ d # "None" THEN d ELSE "NULL"
             e2 == IF callee = "fn_raise" THEN "ObserverError" ELSE err
         IN  IF e2 # "none"
             THEN [thrown |-> TRUE, msg |-> "PyErr_Occurred is set", sig |-> FALSE,
                   err |-> e2, observed |-> callee, yielded |-> FALSE,
                   why |-> "observer",
                   steps |-> <<"PyErr_CheckSignals">> \o Called(callee)
                             \o <<"PyErr_Occurred">>]
             ELSE [thrown |-> FALSE, msg |-> "none", sig |-> FALSE, err |-> e2,
                   observed |-> callee, yielded |-> TRUE, why |-> "none",
                   steps |-> <<"PyErr_CheckSignals">> \o Called(callee)
                             \o <<"PyErr_Occurred", "yield">>]

\* set_reporting_callback(o)
set_reporting_callback ==
    /\ pc = "host" /\ gil
    /\ \E o \in Observers \ {"NULL"} : _callback_obj' = o
    /\ ret' = [NoRet EXCEPT !.op = "set_reporting_callback", !.kind = "value",
                            !.obj = "None"]
    /\ pyErr' = "none"
    /\ UNCHANGED <<stream, tail, cursor, pulls, pc, gil, sig, call, caps, deref>>
    /\ UNCHANGED <<pairvars, thr, last_report, mapvars, engvars>>

\* ------------------------------------------------- long-running handlers
\* Each handler is described by what its code does around the engine call:
\*   input     what the engine works through: a file it opens by name, the
\*             caller's parser, or a key range
\*   dropsGIL  the engine call is between Py_BEGIN/END_ALLOW_THREADS
\*   report    _report_fn is passed to the engine
\*   onSignal, onFile, onEOS
\*             what the handler does with _khmer_signal, khmer_file_exception
\*             and NoMoreReadsAvailable: "IOError" (PyErr_SetString(PyExc_IOError)
\*             and return NULL), "bare" (return NULL), "uncaught" (no catch)
\*   endInTry  Py_END_ALLOW_THREADS is inside the try block, so a throw skips it
\*   dangling  the message handed to PyErr_SetString for a signal points into a
\*             temporary string that no longer exists
\*   result    what a normal return carries
hash_consume_fasta ==
    [name |-> "hash_consume_fasta", input |-> "file", dropsGIL |-> FALSE,
     report |-> TRUE, onSignal |-> "IOError", onFile |-> "IOError",
     onEOS |-> "uncaught", endInTry |-> FALSE, dangling |-> FALSE,
     result |-> "counts"]

hashbits_consume_fasta ==
    [name |-> "hashbits_consume_fasta", input |-> "file", dropsGIL |-> FALSE,
     report |-> TRUE, onSignal |-> "IOError", onFile |-> "IOError",
     onEOS |-> "uncaught", endInTry |-> FALSE, dangling |-> FALSE,
     result |-> "counts"]

hash_abundance_distribution ==
    [name |-> "hash_abundance_distribution", input |-> "file", dropsGIL |-> TRUE,
     report |-> FALSE, onSignal |-> "uncaught", onFile |-> "IOError",
     onEOS |-> "uncaught", endInTry |-> FALSE, dangling |-> FALSE,
     result |-> "dist"]

hashbits_do_subset_partition ==
    [name |-> "hashbits_do_subset_partition", input |-> "range", dropsGIL |-> TRUE,
     report |-> TRUE, onSignal |-> "bare", onFile |-> "uncaught",
     onEOS |-> "uncaught", endInTry |-> TRUE, dangling |-> FALSE,
     result |-> "capsule"]

hash_do_subset_partition_with_abundance ==
    [name |-> "hash_do_subset_partition_with_abundance", input |-> "range",
     dropsGIL |-> TRUE, report |-> TRUE, onSignal |-> "bare",
     onFile |-> "uncaught", onEOS |-> "uncaught", endInTry |-> TRUE,
     dangling |-> FALSE, result |-> "KSubset"]

hashbits_filter_if_present ==
    [name |-> "hashbits_filter_if_present", input |-> "file", dropsGIL |-> FALSE,
     report |-> TRUE, onSignal |-> "bare", onFile |-> "uncaught",
     onEOS |-> "uncaught", endInTry |-> FALSE, dangling |-> FALSE,
     result |-> "None"]

hashbits_find_unpart ==
    [name |-> "hashbits_find_unpart", input |-> "file", dropsGIL |-> FALSE,
     report |-> TRUE, onSignal |-> "bare", onFile |-> "uncaught",
     onEOS |-> "uncaught", endInTry |-> FALSE, dangling |-> FALSE,
     result |-> "count"]

hash_consume_fasta_with_reads_parser ==
    [name |-> "hash_consume_fasta_with_reads_parser", input |-> "parser",
     dropsGIL |-> TRUE, report |-> TRUE, onSignal |-> "IOError",
     onFile |-> "uncaught", onEOS |-> "uncaught", endInTry |-> FALSE,
     dangling |-> TRUE, result |-> "counts"]

hashbits_consume_fasta_with_reads_parser ==
    [name |-> "hashbits_consume_fasta_with_reads_parser", input |-> "parser",
     dropsGIL |-> TRUE, report |-> TRUE, onSignal |-> "IOError",
     onFile |-> "uncaught", onEOS |-> "uncaught", endInTry |-> FALSE,
     dangling |-> TRUE, result |-> "counts"]

hash_abundance_distribution_with_reads_parser ==
    [name |-> "hash_abundance_distribution_with_reads_parser", input |-> "parser",
     dropsGIL |-> TRUE, report |-> FALSE, onSignal |-> "uncaught",
     onFile |-> "uncaught", onEOS |-> "IOError", endInTry |-> FALSE,
     dangling |-> FALSE, result |-> "dist"]

hashbits_consume_fasta_and_tag_with_reads_parser ==
    [name |-> "hashbits_consume_fasta_and_tag_with_reads_parser",
     input |-> "parser", dropsGIL |-> TRUE, report |-> TRUE,
     onSignal |-> "IOError", onFile |-> "uncaught", onEOS |-> "IOError",
     endInTry |-> FALSE, dangling |-> TRUE, result |-> "counts"]

NoHandler ==
    [name |-> "none", input |-> "none", dropsGIL |-> FALSE, report |-> FALSE,
     onSignal |-> "uncaught", onFile |-> "uncaught", onEOS |-> "uncaught",
     endInTry |-> FALSE, dangling |-> FALSE, result |-> "none"]

FileHandlers ==
    {hash_consume_fasta, hashbits_consume_fasta, hash_abundance_distribution,
     hashbits_do_subset_partition, hash_do_subset_partition_with_abundance,
     hashbits_filter_if_present}

ParserHandlers ==
    {hash_consume_fasta_with_reads_parser, hashbits_consume_fasta_with_reads_parser,
     hash_abundance_distribution_with_reads_parser,
     hashbits_consume_fasta_and_tag_with_reads_parser}

NoCall ==
    [h |-> NoHandler, cb |-> "NULL", path |-> "good", n |-> 0, reports |-> 0,
     since |-> 0]

\* ------------------------------------------------- capsules
NoCap ==
    [name |-> "none", st |-> "unused", payload |-> "none", dtor |-> "none",
     frees |-> 0, uses |-> 0]

\* PyCapsule_New(pointer, name, destructor) as the creating handlers call it
PyCapsule_New(name, destructor) ==
    [name |-> name, st |-> "live", payload |-> "live", dtor |-> destructor,
     frees |-> 0, uses |-> 0]

FreeSlots == {i \in 1..MaxHandles : caps[i].st = "unused"}

NextSlot == CHOOSE i \in FreeSlots : \A j \in FreeSlots : i <= j

\* ------------------------------------------------- partition map files
\* SubsetPartition::save_partitionmap and load_partitionmap, whose code is
\* outside this file: the file holds one (key, partition id) entry for each
\* tagged key, by ascending key; loading tags the keys of the entries read.
RECURSIVE PartitionEntries(_, _)
PartitionEntries(m, k) ==
    IF k > MaxKey THEN <<>>
    ELSE (IF m[k] # 0 THEN <<[key |-> k, pid |-> m[k]]>> ELSE <<>>)
         \o PartitionEntries(m, k + 1)

save_partitionmap(m) == PartitionEntries(m, 1)

load_partitionmap(data) ==
    [k \in Keys |->
        IF \E i \in 1..Len(data) : data[i].key = k
        THEN data[CHOOSE i \in 1..Len(data) : data[i].key = k].pid
        ELSE 0]

\* the file at a readable path: its entries, and the map they were written from
NoFile == [data |-> <<>>, saved |-> NoMap]

\* ------------------------------------------------- handler epilogue
\* What a long-running handler hands back for the exception (or "none") that
\* left the engine call: the return record, whether the lock is held again and
\* whether the exception escaped the handler. `intact` says whether a dangling
\* message pointer still reads the bytes it was taken from.
HandlerReturn(h, exc, why, msg, err, n, since, intact) ==
    LET mode == CASE exc = "none" -> "ok"
                  [] exc = "_khmer_signal" -> h.onSignal
                  [] exc = "khmer_file_exception" -> h.onFile
                  [] exc = "NoMoreReadsAvailable" -> h.onEOS
                  [] OTHER -> "uncaught"
        base == [NoRet EXCEPT !.op = h.name, !.cause = exc, !.why = why,
                              !.n = n, !.since = since]
        r == CASE mode = "ok" ->
                    [base EXCEPT !.kind = "value", !.err = err, !.obj = h.result,
                                 !.count = IF h.result = "counts" THEN n ELSE -1]
               [] mode = "IOError" ->
                    [base EXCEPT !.kind = "fail", !.err = "IOError",
                                 !.msg = IF exc # "_khmer_signal"
                                         THEN "what()"
                                         ELSE IF h.dangling /\ ~intact
                                         THEN "garbage" ELSE msg]
               [] mode = "bare" ->
                    [base EXCEPT !.kind = "fail",
                                 !.err = IF err = "none" THEN "SystemError" ELSE err]
               [] OTHER -> [base EXCEPT !.kind = "terminate", !.err = err]
    IN  [ret |-> r,
         gil |-> IF h.dropsGIL THEN ~(exc # "none" /\ h.endInTry) ELSE TRUE,
         crashed |-> mode = "uncaught"]

\* The SubsetPartition that the do_subset_partition handlers construct
\* before the engine runs: wrapped in the capsule or object they return, or,
\* when they return NULL from the catch block, left as it is
SubsetAfterCall(h, kind) ==
    IF h.result \notin {"capsule", "KSubset"} THEN "none"
    ELSE IF kind = "value" THEN "owned"
    ELSE "orphan"

\* the SubsetPartition constructed by hashbits_load_subset_partitionmap
SubsetAfterLoad(fail) == IF fail THEN "deleted" ELSE "owned"

Leave(h, exc, why, msg, err, n, since) ==
    \E intact \in BOOLEAN :
        LET o == HandlerReturn(h, exc, why, msg, err, n, since, intact)
        IN  /\ ret' = o.ret
            /\ pyErr' = o.ret.err
            /\ pc' = IF o.crashed THEN "crashed" ELSE "host"
            /\ gil' = IF o.crashed THEN gil ELSE o.gil
            /\ call' = NoCall
            /\ caps' = IF o.ret.kind = "value" /\ h.result = "capsule"
                       THEN [caps EXCEPT ![NextSlot] =
                                PyCapsule_New("khmer.SubsetPartition",
                                              "free_subset_partition_info")]
                       ELSE caps
            /\ pmaps' = IF o.ret.kind = "value" /\ h.result = "capsule"
                        THEN [pmaps EXCEPT ![NextSlot] = tagged]
                        ELSE pmaps
            /\ subengine' = IF o.crashed THEN subengine
                            ELSE SubsetAfterCall(h, o.ret.kind)

\* ------------------------------------------------- engine calls
\* The handler up to the engine call: arguments parsed, the lock released
\* where the handler does so.
Enter(h, cb, path) ==
    /\ pc = "host" /\ gil
    /\ h.input = "file" \/ path = "good"
    /\ h.result = "capsule" => FreeSlots # {}
    /\ call' = [h |-> h, cb |-> cb, path |-> path, n |-> 0, reports |-> 0,
                since |-> 0]
    /\ pc' = "native"
    /\ gil' = ~h.dropsGIL
    /\ ret' = NoRet
    /\ pyErr' = "none"
    /\ last_report' = NoReport
    /\ UNCHANGED <<stream, tail, cursor, pulls, sig, _callback_obj, caps, deref>>
    /\ UNCHANGED <<pairvars, thr, mapvars, engvars>>

\* The engines (CountingHash, Hashbits, SubsetPartition) are outside this
\* file. An engine opens its input, works through it unit by unit, and calls
\* the callback it was given after every ReportInterval units; an exception
\* of the callback or of the parser leaves the engine call.

\* The record of one callback invocation by the engine: _report_fn is handed
\* (info, data, n_reads, other) and passes (info, n_reads, other) on to the
\* observer it calls.
ReportMade(R, info, n_reads) ==
    [made |-> TRUE, cb |-> call.cb, dflt |-> _callback_obj,
     observed |-> R.observed,
     args |-> IF R.observed = "NULL" THEN <<>> ELSE <<info, n_reads, 0>>,
     n |-> n_reads, thrown |-> R.thrown, why |-> R.why,
     tripped |-> sig, yielded |-> R.yielded, steps |-> R.steps,
     locked |-> gil]

\* the file cannot be opened
EngineFileError ==
    /\ pc = "native"
    /\ call.h.input = "file" /\ call.path = "missing"
    /\ Leave(call.h, "khmer_file_exception", "file", "what()", pyErr, call.n,
             call.since)
    /\ UNCHANGED <<stream, tail, cursor, pulls, sig, _callback_obj, deref>>
    /\ UNCHANGED <<pairvars, thr, last_report, files, tagged, engvars>>

HasWork ==
    IF call.h.input = "parser" THEN cursor < Len(stream) /\ stream[cursor + 1].wf
    ELSE call.path = "good" /\ call.n < WorkLen

\* one unit of work with no callback due after it
EngineUnit ==
    /\ pc = "native" /\ HasWork
    /\ ~(call.h.report /\ (call.n + 1) % ReportInterval = 0)
    /\ call' = [call EXCEPT !.n = @ + 1,
                            !.since = IF sig THEN @ + 1 ELSE 0]
    /\ cursor' = IF call.h.input = "parser" THEN cursor + 1 ELSE cursor
    /\ UNCHANGED <<stream, tail, pulls, pc, gil, sig, pyErr, _callback_obj, ret,
                   caps, deref>>
    /\ UNCHANGED <<pairvars, thr, last_report, mapvars, engvars>>

\* one unit of work followed by the callback, which returns
EngineUnitReport ==
    /\ pc = "native" /\ HasWork
    /\ call.h.report /\ (call.n + 1) % ReportInterval = 0
    /\ LET R == _report_fn(call.cb, sig, pyErr, _callback_obj)
       IN  /\ ~R.thrown
           /\ call' = [call EXCEPT !.n = @ + 1, !.reports = @ + 1,
                                   !.since = IF R.sig THEN @ + 1 ELSE 0]
           /\ sig' = R.sig
           /\ pyErr' = R.err
           /\ last_report' = ReportMade(R, call.h.name, call.n + 1)
    /\ cursor' = IF call.h.input = "parser" THEN cursor + 1 ELSE cursor
    /\ UNCHANGED <<stream, tail, pulls, pc, gil, _callback_obj, ret, caps, deref>>
    /\ UNCHANGED <<pairvars, thr, mapvars, engvars>>

\* one unit of work followed by the callback, which throws _khmer_signal
EngineUnitCancel ==
    /\ pc = "native" /\ HasWork
    /\ call.h.report /\ (call.n + 1) % ReportInterval = 0
    /\ LET R == _report_fn(call.cb, sig, pyErr, _callback_obj)
       IN  /\ R.thrown
           /\ sig' = R.sig
           /\ Leave(call.h, "_khmer_signal", R.why, R.msg, R.err, call.n + 1,
                    IF sig THEN call.since + 1 ELSE 0)
           /\ last_report' = ReportMade(R, call.h.name, call.n + 1)
    /\ cursor' = IF call.h.input = "parser" THEN cursor + 1 ELSE cursor
    /\ UNCHANGED <<stream, tail, pulls, _callback_obj, deref>>
    /\ UNCHANGED <<pairvars, thr, files, tagged, engvars>>

\* The callback uses the interpreter (PyErr_CheckSignals, PyObject_Call,
\* PyErr_Occurred, PyEval_SaveThread); called with the lock released that is
\* undefined: it may go on as above, or bring the process down.
EngineReportCrash ==
    /\ pc = "native" /\ HasWork
    /\ call.h.report /\ (call.n + 1) % ReportInterval = 0
    /\ ~gil
    /\ pc' = "crashed"
    /\ ret' = [NoRet EXCEPT !.op = call.h.name, !.kind = "terminate",
                            !.cause = "callback without the lock",
                            !.n = call.n + 1]
    /\ cursor' = IF call.h.input = "parser" THEN cursor + 1 ELSE cursor
    /\ UNCHANGED <<stream, tail, pulls, gil, sig, pyErr, _callback_obj, call, caps,
                   deref>>
    /\ UNCHANGED <<pairvars, thr, last_report, mapvars, engvars>>

\* the input is used up: the engine returns
EngineDone ==
    /\ pc = "native"
    /\ IF call.h.input = "parser" THEN is_complete
       ELSE call.path = "good" /\ call.n = WorkLen
    /\ Leave(call.h, "none", "none", "none", pyErr, call.n, call.since)
    /\ UNCHANGED <<stream, tail, cursor, pulls, sig, _callback_obj, deref>>
    /\ UNCHANGED <<pairvars, thr, last_report, files, tagged, engvars>>

\* the parser has only trailing input left and raises NoMoreReadsAvailable;
\* an engine whose handler has no catch for it ends its loop on it
EngineEndOfStream ==
    /\ pc = "native"
    /\ call.h.input = "parser" /\ cursor = Len(stream) /\ tail
    /\ tail' = imprint_next_read.tail
    /\ IF call.h.onEOS = "uncaught"
       THEN Leave(call.h, "none", "none", "none", pyErr, call.n, call.since)
       ELSE Leave(call.h, "NoMoreReadsAvailable", "end of stream", "what()",
                  pyErr, call.n, call.since)
    /\ UNCHANGED <<stream, cursor, pulls, sig, _callback_obj, deref>>
    /\ UNCHANGED <<pairvars, thr, last_report, files, tagged, engvars>>

\* the parser meets a malformed record and raises StreamReadError, for which
\* no handler of a parser-driven engine call has a catch
EngineStreamError ==
    /\ pc = "native"
    /\ call.h.input = "parser" /\ cursor < Len(stream) /\ ~stream[cursor + 1].wf
    /\ cursor' = imprint_next_read.cursor
    /\ Leave(call.h, "StreamReadError", "malformed record", "what()", pyErr,
             call.n, call.since)
    /\ UNCHANGED <<stream, tail, pulls, sig, _callback_obj, deref>>
    /\ UNCHANGED <<pairvars, thr, last_report, files, tagged, engvars>>

\* ------------------------------------------------- the host
\* an interrupt arrives while an engine call runs
RaiseInterrupt ==
    /\ pc = "native" /\ ~sig
    /\ sig' = TRUE
    /\ UNCHANGED <<stream, tail, cursor, pulls, pc, gil, pyErr, _callback_obj,
                   call, ret, caps, deref>>
    /\ UNCHANGED <<pairvars, thr, last_report, mapvars, engvars>>

\* back in the interpreter, a pending interrupt is taken by its main loop
HostChecksSignals ==
    /\ pc = "host" /\ gil /\ sig
    /\ sig' = FALSE
    /\ UNCHANGED <<stream, tail, cursor, pulls, pc, gil, pyErr, _callback_obj,
                   call, ret, caps, deref>>
    /\ UNCHANGED <<pairvars, thr, last_report, mapvars, engvars>>

\* the interpreter runs on without its lock
HostRunsWithoutGIL ==
    /\ pc = "host" /\ ~gil
    /\ pc' = "crashed"
    /\ UNCHANGED <<stream, tail, cursor, pulls, gil, sig, pyErr, _callback_obj,
                   call, ret, caps, deref>>
    /\ UNCHANGED <<pairvars, thr, last_report, mapvars, engvars>>

\* ------------------------------------------------- handle operations
\* Objects the host can pass where a handle is expected: a capsule it still
\* holds, 0 for an object that is no capsule, -1 for None.
HostObjects == {i \in 1..MaxHandles : caps[i].st = "live"} \cup {0, -1}

\* PyCapsule_IsValid(o, name): o is a capsule of that name with a pointer
PyCapsule_IsValid(o, name) ==
    /\ o \in 1..MaxHandles
    /\ caps[o].st = "live"
    /\ caps[o].name = name

\* PyCapsule_GetPointer(o, name): the payload (its slot number), or NULL (0)
\* with ValueError set
PyCapsule_GetPointer(o, name) ==
    IF PyCapsule_IsValid(o, name)
    THEN [ptr |-> o, err |-> "none"]
    ELSE [ptr |-> 0, err |-> "ValueError"]

\* what a dereference of a payload pointer reads
DerefClass(ptr) ==
    IF ptr = 0 THEN "null"
    ELSE IF caps[ptr].payload = "live" THEN "live" ELSE "freed"

\* the destructors bound to the capsules: applied to capsule record c
free_pre_partition_info_leaks(c) ==
    [c EXCEPT !.st = "dead"]

free_pre_partition_info(c) ==
    IF c.name = "khmer.pre_partition_info"
    THEN [c EXCEPT !.st = "dead", !.payload = "freed", !.frees = @ + 1]
    ELSE [c EXCEPT !.st = "dead"]

free_subset_partition_info(c) ==
    IF c.name = "khmer.SubsetPartition"
    THEN [c EXCEPT !.st = "dead", !.payload = "freed", !.frees = @ + 1]
    ELSE [c EXCEPT !.st = "dead"]

\* the host drops its last reference to capsule i: the capsule's destructor runs
Release ==
    /\ pc = "host" /\ gil
    /\ \E i \in 1..MaxHandles :
        /\ caps[i].st = "live"
        /\ caps' = [caps EXCEPT ![i] =
                        IF caps[i].dtor = "free_pre_partition_info"
                        THEN free_pre_partition_info(caps[i])
                        ELSE free_subset_partition_info(caps[i])]
    /\ ret' = NoRet
    /\ UNCHANGED <<stream, tail, cursor, pulls, pc, gil, sig, pyErr,
                   _callback_obj, call, deref>>
    /\ UNCHANGED <<pairvars, thr, last_report, mapvars, engvars>>

\* hashbits_find_all_tags / hash_find_all_tags_truncate_on_abundance: the
\* k-mer's length is checked, the search runs with the lock released, and the
\* result is wrapped in a capsule bound to free_pre_partition_info
FindAllTags(name, kmerOK) ==
    /\ pc = "host" /\ gil
    /\ FreeSlots # {}
    /\ IF kmerOK
       THEN /\ caps' = [caps EXCEPT ![NextSlot] =
                          PyCapsule_New("khmer.pre_partition_info",
                                        "free_pre_partition_info")]
            /\ ret' = [NoRet EXCEPT !.op = name, !.kind = "value",
                                    !.obj = "capsule", !.count = NextSlot]
            /\ pyErr' = "none"
       ELSE /\ caps' = caps
            /\ ret' = [NoRet EXCEPT !.op = name, !.kind = "fail",
                                    !.err = "ValueError", !.why = "k-mer size"]
            /\ pyErr' = "ValueError"
    /\ gil' = TRUE
    /\ deref' = "none"
    /\ UNCHANGED <<stream, tail, cursor, pulls, pc, sig, _callback_obj, call>>
    /\ UNCHANGED <<pairvars, thr, last_report, mapvars, engvars>>

hashbits_find_all_tags ==
    \E kmerOK \in BOOLEAN : FindAllTags("hashbits_find_all_tags", kmerOK)

hash_find_all_tags_truncate_on_abundance ==
    \E kmerOK \in BOOLEAN :
        FindAllTags("hash_find_all_tags_truncate_on_abundance", kmerOK)

\* what hashbits_load_subset_partitionmap hands to PyCapsule_New: the
\* SubsetPartition it loaded, which it deletes instead when loading failed
LoadedPayloadEmpty(fail, loaded) == NoMap

LoadedPayload(fail, loaded) == IF fail THEN NoMap ELSE loaded

\* what hashbits_save_subset_partitionmap writes for the payload it was
\* given: subset_p->save_partitionmap(filename), the payload left as it is
SavedFile(m) == [data |-> save_partitionmap(m), saved |-> m]

\* hashbits_load_subset_partitionmap: a new SubsetPartition is loaded from the
\* path; on a file error it is deleted and IOError reported, else it is
\* wrapped in a capsule bound to free_subset_partition_info
hashbits_load_subset_partitionmap ==
    /\ pc = "host" /\ gil
    /\ FreeSlots # {}
    /\ \E path \in Paths :
        IF path = "good"
        THEN /\ caps' = [caps EXCEPT ![NextSlot] =
                           PyCapsule_New("khmer.SubsetPartition",
                                         "free_subset_partition_info")]
             /\ pmaps' = [pmaps EXCEPT ![NextSlot] =
                            LoadedPayload(FALSE, load_partitionmap(files.data))]
             /\ subengine' = SubsetAfterLoad(FALSE)
             /\ ret' = [NoRet EXCEPT !.op = "hashbits_load_subset_partitionmap",
                                     !.kind = "value", !.obj = "capsule",
                                     !.count = NextSlot]
             /\ pyErr' = "none"
        ELSE /\ caps' = caps
             /\ pmaps' = pmaps
             /\ subengine' = SubsetAfterLoad(TRUE)
             /\ ret' = [NoRet EXCEPT !.op = "hashbits_load_subset_partitionmap",
                                     !.kind = "fail", !.err = "IOError",
                                     !.msg = "what()",
                                     !.cause = "khmer_file_exception"]
             /\ pyErr' = "IOError"
    /\ gil' = TRUE
    /\ deref' = "none"
    /\ UNCHANGED <<stream, tail, cursor, pulls, pc, sig, _callback_obj, call>>
    /\ UNCHANGED <<pairvars, thr, last_report, files, tagged, engvars>>

\* Each handle-consuming handler is described by the capsule name it asks
\* for, whether it calls PyCapsule_IsValid before PyCapsule_GetPointer,
\* whether None stands for the engine's own partition, and whether it counts
\* as a use of a partial-partition handle.
hashbits_assign_partition_id ==
    [name |-> "hashbits_assign_partition_id", expects |-> "khmer.pre_partition_info",
     checked |-> TRUE, noneOK |-> FALSE]

hashbits_merge_subset ==
    [name |-> "hashbits_merge_subset", expects |-> "khmer.SubsetPartition",
     checked |-> TRUE, noneOK |-> FALSE]

hashbits_repartition_largest_partition ==
    [name |-> "hashbits_repartition_largest_partition",
     expects |-> "khmer.SubsetPartition", checked |-> FALSE, noneOK |-> TRUE]

hashbits_subset_count_partitions ==
    [name |-> "hashbits_subset_count_partitions",
     expects |-> "khmer.SubsetPartition", checked |-> FALSE, noneOK |-> FALSE]

hashbits_subset_partition_size_distribution ==
    [name |-> "hashbits_subset_partition_size_distribution",
     expects |-> "khmer.SubsetPartition", checked |-> FALSE, noneOK |-> FALSE]

hashbits_save_subset_partitionmap ==
    [name |-> "hashbits_save_subset_partitionmap",
     expects |-> "khmer.SubsetPartition", checked |-> FALSE, noneOK |-> FALSE]

hashbits__validate_subset_partitionmap ==
    [name |-> "hashbits__validate_subset_partitionmap",
     expects |-> "khmer.SubsetPartition", checked |-> FALSE, noneOK |-> FALSE]

HandleConsumers ==
    {hashbits_assign_partition_id, hashbits_merge_subset,
     hashbits_repartition_largest_partition, hashbits_subset_count_partitions,
     hashbits_subset_partition_size_distribution,
     hashbits_save_subset_partitionmap, hashbits__validate_subset_partitionmap}

\* the capsule record after a handler has read its payload
PayloadAfterUseDeletes(c) ==
    [c EXCEPT !.payload = "freed", !.frees = @ + 1,
              !.uses = IF @ < MaxUses THEN @ + 1 ELSE @]

PayloadAfterUse(c) ==
    [c EXCEPT !.uses = IF @ < MaxUses THEN @ + 1 ELSE @]

HandleRet(h, o, kind, err, msg) ==
    [NoRet EXCEPT !.op = h.name, !.kind = kind, !.err = err, !.msg = msg,
                  !.count = o,
                  !.why = IF PyCapsule_IsValid(o, h.expects) THEN "match"
                          ELSE IF o = -1 /\ h.noneOK THEN "own partition"
                          ELSE "mismatch"]

\* the argument is refused by the PyCapsule_IsValid check
UseHandleRefused ==
    /\ pc = "host" /\ gil
    /\ \E h \in HandleConsumers, o \in HostObjects :
        /\ h.checked /\ ~PyCapsule_IsValid(o, h.expects)
        /\ ret' = HandleRet(h, o, "fail", "ValueError", "invalid handle")
    /\ pyErr' = "ValueError"
    /\ deref' = "none"
    /\ UNCHANGED <<stream, tail, cursor, pulls, pc, gil, sig, _callback_obj, call,
                   caps>>
    /\ UNCHANGED <<pairvars, thr, last_report, mapvars, engvars>>

\* None where the handler takes it for the engine's own partition
UseOwnPartition ==
    /\ pc = "host" /\ gil
    /\ \E h \in HandleConsumers :
        /\ h.noneOK
        /\ ret' = HandleRet(h, -1, "value", "none", "none")
    /\ pyErr' = "none"
    /\ deref' = "none"
    /\ UNCHANGED <<stream, tail, cursor, pulls, pc, gil, sig, _callback_obj, call,
                   caps>>
    /\ UNCHANGED <<pairvars, thr, last_report, mapvars, engvars>>

\* the pointer PyCapsule_GetPointer returned is used and refers to a
\* payload, in a call of one of the handlers H
UseHandleBy(H) ==
    /\ pc = "host" /\ gil
    /\ \E h \in H, o \in HostObjects :
        LET p == PyCapsule_GetPointer(o, h.expects)
        IN  /\ ~(o = -1 /\ h.noneOK)
            /\ h.checked => PyCapsule_IsValid(o, h.expects)
            /\ p.ptr # 0
            /\ deref' = DerefClass(p.ptr)
            /\ caps' = [caps EXCEPT ![p.ptr] = PayloadAfterUse(caps[p.ptr])]
            /\ files' = IF h = hashbits_save_subset_partitionmap
                           /\ DerefClass(p.ptr) = "live"
                        THEN SavedFile(pmaps[p.ptr])
                        ELSE files
            /\ IF DerefClass(p.ptr) = "live"
               THEN /\ ret' = HandleRet(h, o, "value", "none", "none")
                    /\ pc' = pc
               ELSE \* freed memory is read: anything may follow
                    \E crash \in BOOLEAN :
                        /\ ret' = HandleRet(h, o, IF crash THEN "terminate"
                                                  ELSE "value", "none", "garbage")
                        /\ pc' = IF crash THEN "crashed" ELSE pc
    /\ pyErr' = "none"
    /\ UNCHANGED <<stream, tail, cursor, pulls, gil, sig, _callback_obj, call>>
    /\ UNCHANGED <<pairvars, thr, last_report, pmaps, tagged, subengine, engvars>>

UseHandle == UseHandleBy(HandleConsumers)

\* PyCapsule_GetPointer returned NULL, ValueError is set, and the handler
\* calls through the NULL pointer: anything may follow
UseHandleNull ==
    /\ pc = "host" /\ gil
    /\ \E h \in HandleConsumers, o \in HostObjects, crash \in BOOLEAN :
        LET p == PyCapsule_GetPointer(o, h.expects)
        IN  /\ ~(o = -1 /\ h.noneOK)
            /\ ~h.checked
            /\ p.ptr = 0
            /\ ret' = HandleRet(h, o, IF crash THEN "terminate" ELSE "value",
                                p.err, "garbage")
            /\ pyErr' = p.err
            /\ pc' = IF crash THEN "crashed" ELSE pc
    /\ deref' = "null"
    /\ UNCHANGED <<stream, tail, cursor, pulls, gil, sig, _callback_obj, call,
                   caps>>
    /\ UNCHANGED <<pairvars, thr, last_report, mapvars, engvars>>

\* ------------------------------------------------- engine objects
\* A host object of an engine type holds its native instance in its own slot
\* (ptr: counting, subset, aligner, hllcounter, labelhash) or in the slot of
\* the hashbits struct (base: hashbits, khashbits.hashbits); 0 is NULL.
\* `engine` is the object whose native instance the aligner or the subset
\* partition was built on. Native instance i is the one made for object i.
EngineTypes ==
    {"CountingHash", "Hashbits", "LabelHash", "HLLCounter", "ReadAligner",
     "KSubsetPartition"}

FreeObjs == {i \in 1..MaxObjects : objs[i].st = "unused"}

NextObj == CHOOSE i \in FreeObjs : \A j \in FreeObjs : i <= j

\* tp_alloc hands out zeroed memory
tp_alloc(t) == [NoObj EXCEPT !.type = t, !.st = "live"]

\* delete p, on the native instances N
DeleteNative(N, p) ==
    IF p = 0 THEN N
    ELSE [N EXCEPT ![p].st = "deleted", ![p].deletes = @ + 1]

\* the constructors: the object made in slot i, whether a native instance
\* was made for it, and the error set when the arguments were refused (the
\* caller of a tp_new that failed gets NULL after Py_DECREF(self))
Constructed(o) == [o |-> o, made |-> TRUE, err |-> "none"]

Refused(t, err) == [o |-> tp_alloc(t), made |-> FALSE, err |-> err]

new_hashtable(i) ==
    Constructed([tp_alloc("CountingHash") EXCEPT !.ptr = i])

khmer_hashbits_new(argsOK, i) ==
    IF argsOK
    THEN Constructed([tp_alloc("Hashbits") EXCEPT !.base = i])
    ELSE Refused("Hashbits", "TypeError")

khmer_labelhash_new(argsOK, i) ==
    IF argsOK
    THEN Constructed([tp_alloc("LabelHash") EXCEPT !.ptr = i, !.base = i])
    ELSE Refused("LabelHash", "TypeError")

khmer_ReadAligner_new(argsOK, i, ch) ==
    IF argsOK
    THEN Constructed([tp_alloc("ReadAligner") EXCEPT !.ptr = i, !.engine = ch])
    ELSE Refused("ReadAligner", "TypeError")

khmer_hllcounter_new(argsOK, i) ==
    IF argsOK
    THEN Constructed([tp_alloc("HLLCounter") EXCEPT !.ptr = i])
    ELSE Refused("HLLCounter", "ValueError")

\* the object hash_do_subset_partition_with_abundance returns when it
\* succeeds, for the subset partition it built on counting object me
KSubsetPartitionObject(i, me) ==
    Constructed([tp_alloc("KSubsetPartition") EXCEPT !.ptr = i, !.engine = me])

tp_new(t, argsOK, i, e) ==
    CASE t = "CountingHash" -> new_hashtable(i)
      [] t = "Hashbits" -> khmer_hashbits_new(argsOK, i)
      [] t = "LabelHash" -> khmer_labelhash_new(argsOK, i)
      [] t = "ReadAligner" -> khmer_ReadAligner_new(argsOK, i, e)
      [] t = "HLLCounter" -> khmer_hllcounter_new(argsOK, i)
      [] OTHER -> KSubsetPartitionObject(i, e)

\* the destructors: the native instances after the deallocation of object o
khmer_counting_dealloc(o, N) == DeleteNative(N, o.ptr)

khmer_hashbits_dealloc(o, N) == DeleteNative(N, o.base)

khmer_subset_dealloc(o, N) == DeleteNative(N, o.ptr)

khmer_labelhash_dealloc_both_slots(o, N) ==
    DeleteNative(DeleteNative(N, o.ptr), o.base)

khmer_labelhash_dealloc(o, N) == DeleteNative(N, o.ptr)

khmer_readaligner_dealloc(o, N) == DeleteNative(N, o.ptr)

khmer_hllcounter_dealloc(o, N) == DeleteNative(N, o.ptr)

\* the tp_dealloc slot of the object's type
tp_dealloc(o, N) ==
    CASE o.type = "CountingHash" -> khmer_counting_dealloc(o, N)
      [] o.type = "Hashbits" -> khmer_hashbits_dealloc(o, N)
      [] o.type = "LabelHash" -> khmer_labelhash_dealloc(o, N)
      [] o.type = "ReadAligner" -> khmer_readaligner_dealloc(o, N)
      [] o.type = "HLLCounter" -> khmer_hllcounter_dealloc(o, N)
      [] OTHER -> khmer_subset_dealloc(o, N)

\* the object after its deallocation; its slots are kept as they were when
\* the destructor was entered, to tell which instance it owned
Deallocated(o) == [o EXCEPT !.st = "dead"]

\* the host constructs an engine object. The aligner and the subset
\* partition are built on a live counting object; a constructor that
\* refuses its arguments releases the object it allocated
EngineObjectNew ==
    /\ pc = "host" /\ gil
    /\ FreeObjs # {}
    /\ \E t \in EngineTypes, argsOK \in BOOLEAN, e \in 0..MaxObjects :
        LET i == NextObj
            c == tp_new(t, argsOK, i, e)
            made == [natives EXCEPT ![i] =
                        [kind |-> t, st |-> "live", deletes |-> 0]]
        IN  /\ IF t \in {"ReadAligner", "KSubsetPartition"} /\ c.made
               THEN /\ e # 0
                    /\ objs[e].st = "live" /\ objs[e].type = "CountingHash"
               ELSE e = 0
            /\ t \in {"CountingHash", "KSubsetPartition"} => argsOK
            /\ objs' = [objs EXCEPT ![i] =
                            IF c.made THEN c.o ELSE Deallocated(c.o)]
            /\ natives' = IF c.made THEN made ELSE tp_dealloc(c.o, natives)
            /\ ret' = [NoRet EXCEPT !.op = t,
                                    !.kind = IF c.made THEN "value" ELSE "fail",
                                    !.err = c.err, !.count = i]
            /\ pyErr' = c.err
    /\ UNCHANGED <<stream, tail, cursor, pulls, pc, gil, sig, _callback_obj,
                   call, caps, deref>>
    /\ UNCHANGED <<pairvars, thr, last_report, mapvars, kmervars, last_arg>>

\* the host drops the last reference to engine object i: tp_dealloc runs
EngineObjectRelease ==
    /\ pc = "host" /\ gil
    /\ \E i \in 1..MaxObjects :
        /\ objs[i].st = "live"
        /\ natives' = tp_dealloc(objs[i], natives)
        /\ objs' = [objs EXCEPT ![i] = Deallocated(objs[i])]
        /\ ret' = [NoRet EXCEPT !.op = "release", !.kind = "value", !.count = i]
    /\ UNCHANGED <<stream, tail, cursor, pulls, pc, gil, sig, pyErr,
                   _callback_obj, call, caps, deref>>
    /\ UNCHANGED <<pairvars, thr, last_report, mapvars, kmervars, last_arg>>

\* ------------------------------------------------- single k-mer calls
\* Hashtable::count and get_count, whose code is outside this file: they
\* hash the first KSize characters of the string; a counting table counts
\* up to MaxCount, a presence table up to 1.
CountKmer(t, s, max) ==
    LET k == SubSeq(s, 1, KSize)
    IN  [t EXCEPT ![k] = IF @ < max THEN @ + 1 ELSE @]

get_count(t, s) == t[SubSeq(s, 1, KSize)]

\* what a handler returns and the table it leaves
KmerRefused(t) == [kind |-> "fail", err |-> "ValueError", count |-> -1, table |-> t]

KmerValue(n, t) == [kind |-> "value", err |-> "none", count |-> n, table |-> t]

hash_count(t, kmer) ==
    IF Len(kmer) # KSize THEN KmerRefused(t)
    ELSE KmerValue(1, CountKmer(t, kmer, MaxCount))

hash_get(t, s) ==
    IF Len(s) # KSize THEN KmerRefused(t)
    ELSE KmerValue(get_count(t, s), t)

hashbits_count(t, kmer) ==
    IF Len(kmer) # KSize THEN KmerRefused(t)
    ELSE KmerValue(1, CountKmer(t, kmer, 1))

hashbits_get(t, s) ==
    IF Len(s) < KSize THEN KmerRefused(t)
    ELSE KmerValue(get_count(t, s), t)

KmerOps == {"hash_count", "hash_get", "hashbits_count", "hashbits_get"}

\* the host calls count or get with a string on one of the two engines
KmerCall ==
    /\ pc = "host" /\ gil
    /\ \E op \in KmerOps, s \in KmerStrings :
        LET r == CASE op = "hash_count" -> hash_count(tables.counting, s)
                   [] op = "hash_get" -> hash_get(tables.counting, s)
                   [] op = "hashbits_count" -> hashbits_count(tables.hashbits, s)
                   [] OTHER -> hashbits_get(tables.hashbits, s)
        IN  /\ tables' = IF op \in {"hash_count", "hash_get"}
                         THEN [tables EXCEPT !.counting = r.table]
                         ELSE [tables EXCEPT !.hashbits = r.table]
            /\ last_kmer' = [op |-> op, arg |-> s, before |-> tables]
            /\ ret' = [NoRet EXCEPT !.op = op, !.kind = r.kind, !.err = r.err,
                                    !.count = r.count]
            /\ pyErr' = r.err
    /\ UNCHANGED <<stream, tail, cursor, pulls, pc, gil, sig, _callback_obj, call,
                   caps, deref>>
    /\ UNCHANGED <<pairvars, thr, last_report, mapvars, objs, natives, last_arg>>

\* ------------------------------------------------- boundary objects as arguments
\* the host may pass any object where a handler expects a boundary object
ObjectTypes == EngineTypes \cup {"ReadParser"}

\* the handlers that use the native pointer of an object argument: the type
\* of self, the type the argument is used as, and the format unit
\* PyArg_ParseTuple is given for it ("O" any object, "O!" an object of the
\* type that follows)
ObjectArgHandlers ==
    {[op |-> "hash_consume_fasta_with_reads_parser", self |-> "CountingHash",
      expects |-> "ReadParser", unit |-> "O"],
     [op |-> "hashbits_consume_fasta_with_reads_parser", self |-> "Hashbits",
      expects |-> "ReadParser", unit |-> "O"],
     [op |-> "subset_compare_partitions", self |-> "KSubsetPartition",
      expects |-> "KSubsetPartition", unit |-> "O"],
     [op |-> "hash_abundance_distribution_with_reads_parser",
      self |-> "CountingHash", expects |-> "ReadParser", unit |-> "O!"],
     [op |-> "hashbits_consume_fasta_and_tag_with_reads_parser",
      self |-> "Hashbits", expects |-> "ReadParser", unit |-> "O!"]}

\* PyArg_ParseTuple on an object of type t: TRUE when it stores the object
PyArg_ParseTuple(unit, expects, t) ==
    IF unit = "O!" THEN t = expects ELSE TRUE

\* the cast of the argument to the expected object type and the read of its
\* native pointer: the pointer of the object, or whatever lies at that
\* offset in an object of another type
_PyObject_to_khmer_ReadParser(expects, t) ==
    IF t = expects THEN "native" ELSE "reinterpreted"

\* one call of such a handler with the parser (a = 0) or engine object a
ObjectArgCall ==
    /\ pc = "host" /\ gil
    /\ \E h \in ObjectArgHandlers, a \in 0..MaxObjects :
        LET t == IF a = 0 THEN "ReadParser" ELSE objs[a].type
            parsed == PyArg_ParseTuple(h.unit, h.expects, t)
            ptr == _PyObject_to_khmer_ReadParser(h.expects, t)
        IN  /\ \E i \in 1..MaxObjects :
                objs[i].st = "live" /\ objs[i].type = h.self
            /\ IF a = 0 THEN parser_obj.st = "live" ELSE objs[a].st = "live"
            /\ last_arg' = [op |-> h.op, expects |-> h.expects, type |-> t,
                            native |-> IF parsed THEN ptr ELSE "none"]
            /\ IF ~parsed
               THEN /\ ret' = [NoRet EXCEPT !.op = h.op, !.kind = "fail",
                                            !.err = "TypeError"]
                    /\ pc' = pc
               ELSE IF ptr = "native"
               THEN /\ ret' = [NoRet EXCEPT !.op = h.op, !.kind = "value"]
                    /\ pc' = pc
               ELSE \* a method call through a pointer that is not one
                    \/ /\ ret' = [NoRet EXCEPT !.op = h.op, !.kind = "terminate",
                                               !.cause = "argument of another type"]
                       /\ pc' = "crashed"
                    \/ /\ ret' = [NoRet EXCEPT !.op = h.op, !.kind = "value",
                                               !.cause = "argument of another type"]
                       /\ pc' = pc
            /\ pyErr' = IF parsed THEN "none" ELSE "TypeError"
    /\ UNCHANGED <<stream, tail, cursor, pulls, gil, sig, _callback_obj, call,
                   caps, deref>>
    /\ UNCHANGED <<pairvars, thr, last_report, mapvars, objs, natives, kmervars>>

\* ------------------------------------------------- specifications
\* the host objects after construction: the host holds the one reference to
\* the parser object, no pair iterator, capsule or engine object exists
InitObjects ==
    /\ parser_obj = NewParser
    /\ iters = [i \in 1..MaxIters |-> NoIter]
    /\ pairs = <<>>
    /\ thr = [t \in Threads |-> IF t = 1 THEN HostThread ELSE WaitingThread]
    /\ last_report = NoReport
    /\ pmaps = [i \in 1..MaxHandles |-> NoMap]
    /\ files = NoFile
    /\ subengine = "none"
    /\ objs = [i \in 1..MaxObjects |-> NoObj]
    /\ natives = [i \in 1..MaxObjects |-> NoNative]
    /\ tables = EmptyTables
    /\ last_kmer = NoKmerCall
    /\ last_arg = NoArgCall

\* a parser opened on an input
InitBase ==
    /\ stream \in Streams
    /\ tail \in BOOLEAN
    /\ cursor = 0
    /\ pulls = <<>>
    /\ pc = "host"
    /\ gil = TRUE
    /\ sig = FALSE
    /\ pyErr = "none"
    /\ _callback_obj = "NULL"
    /\ call = NoCall
    /\ ret = NoRet
    /\ caps = [i \in 1..MaxHandles |-> NoCap]
    /\ deref = "none"
    /\ InitObjects

\* ... whose records come in pairs, and an engine with no tagged key
Init ==
    /\ InitBase
    /\ names = PairedNames(Len(stream))
    /\ tagged = NoMap

\* no parser is involved
InitNoParser == Init /\ stream = <<>> /\ tail = FALSE

EngineSteps ==
    \/ EngineFileError
    \/ EngineUnit
    \/ EngineUnitReport
    \/ EngineUnitCancel
    \/ EngineReportCrash
    \/ EngineDone
    \/ RaiseInterrupt
    \/ HostChecksSignals
    \/ HostRunsWithoutGIL

Handlers == FileHandlers \cup ParserHandlers

\* engine calls on files, key ranges and the caller's parser
Next ==
    \/ \E h \in Handlers, cb \in Observers, path \in Paths : Enter(h, cb, path)
    \/ EngineSteps
    \/ EngineEndOfStream
    \/ EngineStreamError

Spec == Init /\ [][Next]_vars

\* the default observer and engine calls that report to it
NextObserver ==
    \/ set_reporting_callback
    \/ \E h \in {hashbits_consume_fasta, hashbits_find_unpart}, cb \in Observers :
            Enter(h, cb, "good")
    \/ EngineUnit
    \/ EngineUnitReport
    \/ EngineUnitCancel
    \/ EngineDone
    \/ RaiseInterrupt
    \/ HostChecksSignals

SpecObserver == InitNoParser /\ [][NextObserver]_vars

\* record iteration
NextIter == _ReadParser_iternext

SpecIter == Init /\ [][NextIter]_vars

\* handles
NextHandle ==
    \/ hashbits_find_all_tags
    \/ hash_find_all_tags_truncate_on_abundance
    \/ hashbits_load_subset_partitionmap
    \/ UseHandleRefused
    \/ UseOwnPartition
    \/ UseHandle
    \/ UseHandleNull
    \/ Release

SpecHandle == InitNoParser /\ [][NextHandle]_vars

\* an engine with any partition map: subset partitions are made from it,
\* saved to the file, loaded from it, used and released
InitRoundTrip ==
    /\ InitBase
    /\ stream = <<>> /\ tail = FALSE
    /\ names = <<>>
    /\ tagged \in PMaps

NextRoundTrip ==
    \/ Enter(hashbits_do_subset_partition, "NULL", "good")
    \/ EngineUnit
    \/ EngineUnitReport
    \/ EngineDone
    \/ hashbits_load_subset_partitionmap
    \/ UseHandleBy({hashbits_save_subset_partitionmap})
    \/ Release

SpecRoundTrip == InitRoundTrip /\ [][NextRoundTrip]_vars

\* the parser object, the references to it and its pair iterators (made with
\* the default policy)
NextPairLife ==
    \/ ReadParser_iter_read_pairs(PAIR_MODE_ERROR_ON_UNPAIRED)
    \/ khmer_ReadPairIterator_dealloc
    \/ HostAddRef
    \/ HostDropRef
    \/ (parser_obj.st = "live" /\ parser_obj.host > 0 /\ _ReadParser_iternext)
    \/ _ReadPairIterator_iternext

\* a parser opened on an input of well-formed records
InitPairLife == Init /\ WellFormed(stream) /\ ~tail

SpecPairLife == InitPairLife /\ [][NextPairLife]_vars

\* the same, from before the parser is opened on a path
InitOpen ==
    /\ stream \in Streams /\ WellFormed(stream)
    /\ tail = FALSE
    /\ cursor = 0
    /\ pulls = <<>>
    /\ pc = "host"
    /\ gil = TRUE
    /\ sig = FALSE
    /\ pyErr = "none"
    /\ _callback_obj = "NULL"
    /\ call = NoCall
    /\ ret = NoRet
    /\ caps = [i \in 1..MaxHandles |-> NoCap]
    /\ deref = "none"
    /\ parser_obj = NoParser
    /\ iters = [i \in 1..MaxIters |-> NoIter]
    /\ pairs = <<>>
    /\ thr = [t \in Threads |-> IF t = 1 THEN HostThread ELSE WaitingThread]
    /\ last_report = NoReport
    /\ pmaps = [i \in 1..MaxHandles |-> NoMap]
    /\ files = NoFile
    /\ subengine = "none"
    /\ objs = [i \in 1..MaxObjects |-> NoObj]
    /\ natives = [i \in 1..MaxObjects |-> NoNative]
    /\ tables = EmptyTables
    /\ last_kmer = NoKmerCall
    /\ last_arg = NoArgCall
    /\ names = PairedNames(Len(stream))
    /\ tagged = NoMap

NextOpen ==
    \/ _ReadParser_new
    \/ ReadParser_iter_read_pairs(PAIR_MODE_ERROR_ON_UNPAIRED)
    \/ khmer_ReadPairIterator_dealloc
    \/ HostDropRef
    \/ (parser_obj.st = "live" /\ parser_obj.host > 0 /\ _ReadParser_iternext)

SpecOpen == InitOpen /\ [][NextOpen]_vars

\* pulls on one parser and its pair iterators by several host threads;
\* iterators are made by the thread that runs
NextThreads ==
    \/ \E t \in Threads : PullBegin(t)
    \/ \E t \in Threads : PullEnd(t)
    \/ \E t \in Threads : ThreadTakesLock(t)
    \/ \E t \in Threads : ThreadYields(t)
    \/ ReadParser_iter_read_pairs(PAIR_MODE_ERROR_ON_UNPAIRED)

SpecThreads == InitPairLife /\ [][NextThreads]_vars

\* a parser opened on an input whose records carry any identifiers
InitPairs ==
    /\ InitBase
    /\ names \in [1..Len(stream) -> Names]
    /\ tagged = NoMap

\* one pair iterator, made with any policy argument, and the pulls through it
NextPairs ==
    \/ \E m \in PairModeArgs :
            /\ \A i \in 1..MaxIters : iters[i].st = "unused"
            /\ ReadParser_iter_read_pairs(m)
    \/ _ReadPairIterator_iternext

SpecPairs == InitPairs /\ [][NextPairs]_vars

\* engine objects are constructed and released
NextEngine ==
    \/ EngineObjectNew
    \/ EngineObjectRelease

SpecEngine == InitNoParser /\ [][NextEngine]_vars

\* pulls on one parser and on pair iterators made from it with any of the
\* three policies, one after another in any order
NextInterleave ==
    \/ \E m \in {PAIR_MODE_ALLOW_UNPAIRED, PAIR_MODE_IGNORE_UNPAIRED,
                  PAIR_MODE_ERROR_ON_UNPAIRED} : ReadParser_iter_read_pairs(m)
    \/ Len(pulls) + Len(pairs) < MaxPairPulls /\ _ReadParser_iternext
    \/ Len(pulls) + Len(pairs) < MaxPairPulls /\ _ReadPairIterator_iternext

SpecInterleave == Init /\ [][NextInterleave]_vars

\* engine objects made and released, and the calls that are handed a
\* boundary object
NextObjectArg ==
    \/ EngineObjectNew
    \/ EngineObjectRelease
    \/ ObjectArgCall

SpecObjectArg == InitNoParser /\ [][NextObjectArg]_vars

\* the calls that construct a SubsetPartition, cancelled or not, and the
\* release of the handles they return
NextSubEngine ==
    \/ \E h \in {hashbits_do_subset_partition,
                  hash_do_subset_partition_with_abundance}, cb \in Observers :
            Enter(h, cb, "good")
    \/ EngineUnit
    \/ EngineUnitReport
    \/ EngineUnitCancel
    \/ EngineReportCrash
    \/ EngineDone
    \/ RaiseInterrupt
    \/ hashbits_load_subset_partitionmap
    \/ Release

SpecSubEngine == InitNoParser /\ [][NextSubEngine]_vars

\* single k-mer calls on a counting and on a presence engine
NextKmer == KmerCall

SpecKmer == InitNoParser /\ [][NextKmer]_vars

\* ------------------------------------------------- properties
\* C1: on a well-formed input of N records, the i-th pull of
\* _ReadParser_iternext returns the i-th record for i <= N, and every later
\* pull signals the end of the iteration and returns no record.
C1_PullsFollowInput ==
    WellFormed(stream) =>
        \A i \in 1..Len(pulls) :
            pulls[i] = IF i <= Len(stream) THEN stream[i].id ELSE -1

\* all records of an input of at least two were pulled, and then two more pulls made
C1_Witness ==
    /\ WellFormed(stream)
    /\ Len(stream) >= 2
    /\ Len(pulls) >= Len(stream) + 2
    /\ ret.kind = "stop"

\* how a handler reports a file error: the kind of return and the error set
FileFailure(name) ==
    LET h == CHOOSE x \in Handlers : x.name = name
        r == HandlerReturn(h, "khmer_file_exception", "file", "what()", "none",
                           0, 0, TRUE).ret
    IN  <<r.kind, r.err>>

\* C2: a call aborted by the callback because an interrupt was pending is
\* reported to the host as another kind of failure than the one the same
\* handler reports for a file error.
C2_CancelledDiffersFromFileError ==
    (ret.kind = "fail" /\ ret.cause = "_khmer_signal" /\ ret.why = "interrupt")
        => <<ret.kind, ret.err>> # FileFailure(ret.op)

LongRunningOps ==
    {"hash_consume_fasta", "hashbits_consume_fasta", "hash_abundance_distribution",
     "hashbits_do_subset_partition", "hash_do_subset_partition_with_abundance",
     "hashbits_filter_if_present"}

\* C3: each of consume_fasta, abundance_distribution, do_subset_partition and
\* filter_if_present is given _report_fn, and while it runs no more than one
\* report interval of work is done with an interrupt pending.
C3_EveryLongOpReports ==
    (pc = "native" /\ call.h.name \in LongRunningOps)
        => (call.h.report /\ call.since <= ReportInterval)

ConsumeFasta == {"hash_consume_fasta", "hashbits_consume_fasta"}

CountingOps ==
    {"hash_consume_fasta", "hashbits_consume_fasta",
     "hash_consume_fasta_with_reads_parser",
     "hashbits_consume_fasta_with_reads_parser",
     "hashbits_consume_fasta_and_tag_with_reads_parser"}

\* C5: a consume call that fails after k > 0 records reports k with the failure.
C5_FailureCarriesCount ==
    (ret.kind = "fail" /\ ret.op \in CountingOps /\ ret.n > 0)
        => ret.count = ret.n

\* C6: the parser's end of stream (NoMoreReadsAvailable) never reaches the
\* host as a failure of a call that pulls from the parser.
C6_EndOfStreamIsNoFailure ==
    ret.cause = "NoMoreReadsAvailable" => ret.kind # "fail"

\* C7: a handle-consuming call given an object that is not a capsule of the
\* expected name reports a failure and uses no payload pointer.
C7_KindCheckedBeforeUse ==
    ret.why = "mismatch" => (ret.kind = "fail" /\ deref = "none")

C9_FreedExactlyOnce ==
    \A i \in 1..MaxHandles :
        caps[i].name = "khmer.pre_partition_info" =>
            /\ caps[i].st = "live" => (caps[i].frees = 0 /\ caps[i].payload = "live")
            /\ caps[i].st = "dead" => (caps[i].frees = 1 /\ caps[i].payload = "freed")

\* a partial-partition capsule released after assign_partition_id used it,
\* and one released unused
C9_Witness ==
    /\ \E i \in 1..MaxHandles :
            /\ caps[i].name = "khmer.pre_partition_info"
            /\ caps[i].st = "dead" /\ caps[i].uses >= 1 /\ caps[i].frees = 1
    /\ \E j \in 1..MaxHandles :
            /\ caps[j].name = "khmer.pre_partition_info"
            /\ caps[j].st = "dead" /\ caps[j].uses = 0 /\ caps[j].frees = 1

\* C10: whenever a boundary call has returned to the host, the calling thread
\* holds the interpreter lock.
C10_LockHeldOnReturn ==
    pc = "host" => gil

\* C11: once a pair iterator has been destroyed, the parser object stays
\* alive as long as the host holds a reference to it, and the release of the
\* last reference frees it without a crash and without a write to memory that
\* is no live host object.
C11_ParserReleaseIsClean ==
    (\E i \in 1..MaxIters : iters[i].st = "dead") =>
        /\ parser_obj.host > 0 => parser_obj.st = "live"
        /\ parser_obj.st # "live" =>
                (parser_obj.native # "decremented" /\ pc # "crashed")

\* C12: while a pair iterator exists the parser object it was made from is
\* not deallocated, and the parser's reference count is at least the number
\* of live iterators (it is that number plus the host's own references).
C12_IteratorKeepsParser ==
    /\ LiveIters # {} => parser_obj.st = "live"
    /\ parser_obj.st = "live" =>
            parser_obj.refcnt = parser_obj.host + Cardinality(LiveIters)

\* the host has dropped all its references and a pair iterator alone keeps
\* the parser, and a pull through it has returned
C12_Witness ==
    /\ parser_obj.host = 0
    /\ LiveIters # {}
    /\ parser_obj.st = "live"
    /\ ret.op = "_ReadPairIterator_iternext" /\ ret.kind = "value"

\* C13: at any time at most one consumer of the parser (its own record
\* iteration or one of its pair iterators) has a pull inside the released
\* section, in the native parser.
C13_OnePullAtATime ==
    Cardinality({thr[t].c : t \in InPull}) <= 1

\* the input of the example: three well-formed records, the first two a
\* pair, the third without a partner
ThreeRecordInput ==
    /\ Len(stream) = 3 /\ WellFormed(stream)
    /\ Match(1, 2)

\* the pulls made through an iterator of the given policy
PullsUnder(mode) == {k \in 1..Len(pairs) : pairs[k].mode = mode}

\* the two records after position c exist and are well-formed
TwoRecordsAt(c) ==
    /\ c + 2 <= Len(stream)
    /\ stream[c + 1].wf /\ stream[c + 2].wf

Delivered(o) ==
    IF o.kind # "value" THEN 0 ELSE IF o.second = 0 THEN 1 ELSE 2

Callable(o) == o \notin {"NULL", "None"}

\* the observer the override rule selects ("NULL": none)
ChosenObserver(cb, dflt) ==
    IF cb = "None" THEN "NULL"
    ELSE IF Callable(cb) THEN cb
    ELSE IF Callable(dflt) THEN dflt
    ELSE "NULL"

\* C17: a progress report (one not cut short by a pending interrupt) calls
\* no observer when the per-call argument is None, the per-call callable
\* when there is one, else the registered default when there is one, else
\* none; the observer is called with (info, n_reads, other) as the engine
\* reported them; and the report leaves the registered default as it was.
C17_ObserverOverride ==
    (last_report.made /\ last_report.why # "interrupt") =>
        /\ last_report.observed = ChosenObserver(last_report.cb, last_report.dflt)
        /\ last_report.args =
                IF last_report.observed = "NULL" THEN <<>>
                ELSE <<last_report.args[1], last_report.n, 0>>
        /\ (pc = "native" /\ last_report.observed # "NULL") =>
                last_report.args[1] = call.h.name
        /\ pc = "native" => _callback_obj = last_report.dflt

\* a report made with a per-call callable and another callable registered
\* as the default has called the per-call one, and the call goes on
C17_Witness ==
    /\ pc = "native"
    /\ last_report.made
    /\ last_report.cb = "fn_ok" /\ last_report.dflt = "fn_raise"
    /\ last_report.observed = "fn_ok"
    /\ _callback_obj = "fn_raise"

\* C18: when the observer called by a progress report raises, _report_fn
\* throws its signal as it does for an interrupt: the engine call is over,
\* it returns a failure to the host with the observer's error set, and it
\* ended at that report, with no work and no report after it.
C18_ObserverFailureAborts ==
    /\ (last_report.made /\ last_report.observed = "fn_raise") =>
        /\ last_report.thrown
        /\ pc # "native"
        /\ ret.op \in {"hashbits_find_unpart", "hashbits_consume_fasta"} =>
                /\ ret.kind = "fail"
                /\ ret.cause = "_khmer_signal" /\ ret.why = "observer"
                /\ ret.err # "none"
                /\ ret.n = last_report.n
    /\ (ret.why \in {"observer", "interrupt"}) =>
        (ret.kind = "fail" /\ ret.cause = "_khmer_signal" /\ ret.n = last_report.n)

\* find_unpart has been aborted by an observer that raised at its first report
C18_Witness ==
    /\ ret.op = "hashbits_find_unpart"
    /\ ret.kind = "fail" /\ ret.why = "observer"
    /\ last_report.observed = "fn_raise"
    /\ ret.n = ReportInterval

Owned(o) == IF o.ptr # 0 THEN o.ptr ELSE o.base

\* C20: the native instance of a live engine object has not been deleted,
\* the native instance of a released engine object has been deleted exactly
\* once, and no instance is ever deleted twice; both slots of a labelhash
\* object refer to the one instance made for it.
C20_NativeDestroyedOnce ==
    /\ \A n \in 1..MaxObjects : natives[n].deletes <= 1
    /\ \A i \in 1..MaxObjects :
        /\ (objs[i].st = "live") =>
                /\ Owned(objs[i]) = i
                /\ natives[i].st = "live" /\ natives[i].deletes = 0
        /\ (objs[i].st = "dead" /\ Owned(objs[i]) # 0) =>
                /\ Owned(objs[i]) = i
                /\ natives[i].st = "deleted" /\ natives[i].deletes = 1
        /\ (objs[i].st = "dead" /\ Owned(objs[i]) = 0) => natives[i].st = "none"
        /\ (objs[i].type = "LabelHash" /\ Owned(objs[i]) # 0) =>
                objs[i].ptr = objs[i].base

\* a labelhash object and an aligner have been released, each with its
\* instance deleted
C20_Witness ==
    /\ \E i \in 1..MaxObjects :
        /\ objs[i].type = "LabelHash" /\ objs[i].st = "dead"
        /\ objs[i].ptr = i /\ objs[i].base = i
        /\ natives[i].st = "deleted"
    /\ \E j \in 1..MaxObjects :
        /\ objs[j].type \in EngineTypes \ {"LabelHash"}
        /\ objs[j].st = "dead" /\ natives[j].st = "deleted"

\* C21: after an open that failed the host has the error of an invalid
\* stream and no parser object, and neither a parser object nor a native
\* parser is allocated.
C21_FailedOpenLeavesNothing ==
    (ret.op = "_ReadParser_new" /\ ret.kind = "fail") =>
        /\ ret.cause = "InvalidStreamHandle" /\ ret.err # "none"
        /\ ret.obj = "none"
        /\ parser_obj.st \in {"none", "freed"}
        /\ parser_obj.native \in {"none", "null", "deleted"}

\* C22: every pull, with two records left to read, on a pair iterator made
\* with an integer that is none of the three policies fails with the unknown-mode
\* failure and returns no pair.
C22_UnknownModeFails ==
    \A k \in 1..Len(pairs) :
        (/\ iters[pairs[k].it].pair_mode \notin
                {PAIR_MODE_ALLOW_UNPAIRED, PAIR_MODE_IGNORE_UNPAIRED,
                 PAIR_MODE_ERROR_ON_UNPAIRED}
         /\ TwoRecordsAt(pairs[k].from)) =>
            /\ pairs[k].kind = "fail"
            /\ pairs[k].cause = "UnknownPairReadingMode"
            /\ pairs[k].first = -1 /\ pairs[k].second = -1

\* C23: count and get, on either engine, with a string whose length is not
\* the k-mer size fail with ValueError and leave the tables as they were;
\* count with a string of the k-mer size returns 1.
C23_KmerLengthChecked ==
    (last_kmer.op # "none") =>
        IF Len(last_kmer.arg) # KSize
        THEN /\ ret.kind = "fail" /\ ret.err = "ValueError"
             /\ tables = last_kmer.before
        ELSE /\ ret.kind = "value"
             /\ last_kmer.op \in {"hash_count", "hashbits_count"} => ret.count = 1

\* the steps of one report come in the order interrupt check, observer
\* call, error query, yield
StepRank(x) ==
    CASE x = "PyErr_CheckSignals" -> 1
      [] x = "PyObject_Call" -> 2
      [] x = "PyErr_Occurred" -> 3
      [] OTHER -> 4

C26_SubEngineOwned ==
    /\ subengine \in {"none", "owned", "deleted"}
    /\ (ret.op \in {"hashbits_do_subset_partition",
                    "hash_do_subset_partition_with_abundance",
                    "hashbits_load_subset_partitionmap"}
            /\ ret.kind = "fail") => ret.obj = "none"

\* C27: every progress report is made with the interpreter lock held by the
\* calling thread, and no engine call is brought down by a report made
\* without it.
C27_ReportHoldsLock ==
    /\ last_report.made => last_report.locked
    /\ ret.cause # "callback without the lock"

\* C25: the native parser exists as long as the parser object is live and
\* has been deleted, once, when the last reference to the parser object is
\* gone; with no pair iterator live the parser's reference count is the
\* number of references the host holds.
C25_NativeParserDestroyedOnce ==
    /\ parser_obj.st = "live" =>
            /\ parser_obj.native = "open"
            /\ parser_obj.refcnt = parser_obj.host + Cardinality(LiveIters)
    /\ parser_obj.st # "live" => parser_obj.native = "deleted"

\* C28: while an aligner or a subset partition object is live, the engine
\* object whose native instance it was built on is live and its instance
\* has not been deleted.
C28_DependentNeverDangles ==
    \A i \in 1..MaxObjects :
        (objs[i].st = "live" /\ objs[i].engine # 0) =>
            /\ objs[objs[i].engine].st = "live"
            /\ natives[objs[i].engine].st = "live"

\* the records handed to the host by the pulls logged after the first n
\* entries of log p (record pulls) and the first m entries of log q (pair pulls)
DeliveredAfter(p, n, q, m) ==
    {p[k] : k \in (n + 1)..Len(p)}
    \cup {q[k].first : k \in (m + 1)..Len(q)}
    \cup {q[k].second : k \in (m + 1)..Len(q)}

\* C29: whichever consumer pulls, the records a pull hands to the host lie
\* after everything the shared parser had consumed before the pull and
\* within what it has consumed after it, the two records of a pair in input
\* order; the parser never goes back. So no record is delivered twice and
\* deliveries, in pull order, follow input order.
C29_SharedCursorOrder ==
    [][/\ cursor' >= cursor
       /\ \A x \in DeliveredAfter(pulls', Len(pulls), pairs', Len(pairs)) :
            x > 0 => (cursor < x /\ x <= cursor')
       /\ \A k \in (Len(pairs) + 1)..Len(pairs') :
            (pairs'[k].first > 0 /\ pairs'[k].second > 0) =>
                pairs'[k].first < pairs'[k].second]_vars

\* a pair iterator has delivered records 1 and 2 and the parser's own
\* iteration then record 3
C29_Witness ==
    /\ Len(pairs) = 1 /\ pairs[1].first = 1 /\ pairs[1].second = 2
    /\ Len(pulls) = 1 /\ pulls[1] = 3
    /\ cursor = 3

\* C30: a handler given an object of another type than the one whose native
\* pointer it uses reports a failure and reads no pointer out of the object.
C30_ArgumentTypeChecked ==
    (last_arg.op # "none" /\ last_arg.type # last_arg.expects) =>
        /\ pc = "host"
        /\ ret.kind = "fail" /\ pyErr = "TypeError"
        /\ last_arg.native = "none"

====
